---- MODULE Spec2Model ----
(***************************************************************************)
(* diffuse-tui: side-by-side diff viewer.                                  *)
(*                                                                         *)
(* The model covers the section aligner (computeDiffSections over the      *)
(* runs returned by Diff.diffArrays), the fold/viewport arithmetic, the    *)
(* key handler of App with the effects that follow every render, and the   *)
(* edit/undo operations on the right-hand document.                        *)
(*                                                                         *)
(* A text is a sequence of characters; a line is a text without NL.        *)
(***************************************************************************)
EXTENDS Integers, Sequences, FiniteSets, TLC

\* ------------------------------------------------------------------ bounds

\* longest document, in lines, of the aligner specification
MaxDocLines == 3

\* lines by which the long block of a session document exceeds the longest
\* section that is never folded
BlockExtra == 1

\* most entries the undo stack is let grow to
MaxUndo == 2

\* most horizontal scroll steps to the right
MaxHScroll == 1

\* ------------------------------------------------------------- program data

NL == "\n"

\* number of context lines kept at each edge of a folded section
contextLines == 3

Max(a, b) == IF a >= b THEN a ELSE b

Min(a, b) == IF a <= b THEN a ELSE b

\* ------------------------------------------------------------ String.split

\* the characters of s before its first NL (all of s when it has none)
RECURSIVE FirstLine(_)
FirstLine(s) ==
  IF s = <<>> \/ Head(s) = NL THEN <<>> ELSE <<Head(s)>> \o FirstLine(Tail(s))

\* left.split('\n'): the lines of a text; the empty text has one empty line
RECURSIVE split(_)
\* faulty variant of split: the empty text has no line at all
splitNoLines(s) ==
  IF s = <<>> THEN <<>>
  ELSE LET l == FirstLine(s)
       IN  IF Len(l) = Len(s) THEN <<l>>
           ELSE <<l>> \o split(SubSeq(s, Len(l) + 2, Len(s)))

split(s) ==
  LET l == FirstLine(s)
  IN  IF Len(l) = Len(s) THEN <<l>>
      ELSE <<l>> \o split(SubSeq(s, Len(l) + 2, Len(s)))

\* rightLines.join('\n'): the empty array joins to the empty text
RECURSIVE join(_)
join(ls) ==
  IF ls = <<>> THEN <<>>
  ELSE IF Len(ls) = 1 THEN ls[1]
  ELSE ls[1] \o <<NL>> \o join(Tail(ls))

\* Array.prototype.splice(start, deleteCount, ...items) on a copy of arr
splice(arr, start, deleteCount, items) ==
  LET s == Min(Max(start, 0), Len(arr))
      d == Min(Max(deleteCount, 0), Len(arr) - s)
  IN  SubSeq(arr, 1, s) \o items \o SubSeq(arr, s + d + 1, Len(arr))

\* ---------------------------------------------------------- Diff.diffArrays
\* The line classifier: Myers' O(ND) search as the diff package runs it.
\* A path is [def, newPos, components]; positions are 0-based, -1 before the
\* first token; a component is [count, added, removed].

NoPath == [def |-> FALSE, newPos |-> -1, components |-> <<>>]

pushComponent(components, added, removed) ==
  LET n == Len(components)
  IN  IF n > 0 /\ components[n].added = added /\ components[n].removed = removed
      THEN [components EXCEPT ![n].count = @ + 1]
      ELSE Append(components, [count |-> 1, added |-> added, removed |-> removed])

\* number of equal tokens following (newPos, oldPos)
RECURSIVE commonCount(_, _, _, _)
commonCount(newString, oldString, newPos, oldPos) ==
  IF /\ newPos + 1 < Len(newString)
     /\ oldPos + 1 < Len(oldString)
     /\ newString[newPos + 2] = oldString[oldPos + 2]
  THEN 1 + commonCount(newString, oldString, newPos + 1, oldPos + 1)
  ELSE 0

\* follow the diagonal from basePath as far as the tokens agree
extractCommon(basePath, newString, oldString, diagonalPath) ==
  LET c == commonCount(newString, oldString, basePath.newPos,
                       basePath.newPos - diagonalPath)
  IN  [def |-> TRUE,
       newPos |-> basePath.newPos + c,
       components |->
         IF c > 0
         THEN Append(basePath.components,
                     [count |-> c, added |-> FALSE, removed |-> FALSE])
         ELSE basePath.components]

\* bestPath[diagonalPath] while round editLength runs, for a neighbour of a
\* diagonal of that round: the paths stored by round editLength - 1 are held
\* in order of their diagonals -(editLength - 1), -(editLength - 3), ...;
\* every other entry of that parity is undefined
pathAt(paths, editLength, diagonalPath) ==
  IF diagonalPath < -(editLength - 1) \/ diagonalPath > editLength - 1
  THEN NoPath
  ELSE paths[(diagonalPath + editLength - 1) \div 2 + 1]

\* the path reaching diagonalPath in round editLength, from the previous
\* round's paths on the two neighbouring diagonals (NoPath when neither can
\* be extended)
branch(paths, editLength, diagonalPath, newString, oldString) ==
  LET addPath == pathAt(paths, editLength, diagonalPath - 1)
      removePath == pathAt(paths, editLength, diagonalPath + 1)
      oldPos == (IF removePath.def THEN removePath.newPos ELSE 0) - diagonalPath
      canAdd == addPath.def /\ addPath.newPos + 1 < Len(newString)
      canRemove == removePath.def /\ 0 <= oldPos /\ oldPos < Len(oldString)
  IN  IF ~canAdd /\ ~canRemove THEN NoPath
      ELSE IF ~canAdd \/ (canRemove /\ addPath.newPos < removePath.newPos)
      THEN extractCommon(
             [removePath EXCEPT
                !.components = pushComponent(@, FALSE, TRUE)],
             newString, oldString, diagonalPath)
      ELSE extractCommon(
             [addPath EXCEPT
                !.newPos = @ + 1,
                !.components = pushComponent(@, TRUE, FALSE)],
             newString, oldString, diagonalPath)

\* has the path on diagonalPath reached the end of both token lists
reachedEnd(basePath, diagonalPath, newString, oldString) ==
  /\ basePath.def
  /\ basePath.newPos + 1 >= Len(newString)
  /\ basePath.newPos - diagonalPath + 1 >= Len(oldString)

\* one round of execEditLength from diagonalPath on: the paths it stores on
\* diagonalPath, diagonalPath + 2, ... up to the first that reaches both ends
RECURSIVE roundPaths(_, _, _, _, _)
roundPaths(paths, editLength, diagonalPath, newString, oldString) ==
  IF diagonalPath > editLength THEN <<>>
  ELSE LET basePath == branch(paths, editLength, diagonalPath,
                              newString, oldString)
       IN  IF reachedEnd(basePath, diagonalPath, newString, oldString)
           THEN <<basePath>>
           ELSE <<basePath>> \o roundPaths(paths, editLength, diagonalPath + 2,
                                           newString, oldString)

\* execEditLength, round after round, until a path reaches both ends: its
\* components
RECURSIVE execEditLength(_, _, _, _)
execEditLength(paths, editLength, newString, oldString) ==
  IF editLength > Len(newString) + Len(oldString) THEN <<>>
  ELSE LET round == roundPaths(paths, editLength, -editLength,
                               newString, oldString)
           last == round[Len(round)]
       IN  IF reachedEnd(last, 2 * Len(round) - 2 - editLength,
                         newString, oldString)
           THEN last.components
           ELSE execEditLength(round, editLength + 1, newString, oldString)

\* buildValues: give each component its tokens, and put a removal before the
\* addition it follows
RECURSIVE buildValues(_, _, _, _, _, _)
buildValues(components, pos, newPos, oldPos, newString, oldString) ==
  IF pos > Len(components) THEN components
  ELSE LET c == components[pos]
       IN  IF ~c.removed
           THEN buildValues(
                  [components EXCEPT ![pos] =
                     [value |-> SubSeq(newString, newPos + 1, newPos + c.count),
                      count |-> c.count,
                      added |-> c.added, removed |-> c.removed]],
                  pos + 1, newPos + c.count,
                  IF c.added THEN oldPos ELSE oldPos + c.count,
                  newString, oldString)
           ELSE LET v == [value |-> SubSeq(oldString, oldPos + 1, oldPos + c.count),
                          count |-> c.count,
                          added |-> c.added, removed |-> c.removed]
                IN  buildValues(
                      IF pos > 1 /\ components[pos - 1].added
                      THEN [components EXCEPT ![pos - 1] = v,
                                              ![pos] = components[pos - 1]]
                      ELSE [components EXCEPT ![pos] = v],
                      pos + 1, newPos, oldPos + c.count, newString, oldString)

\* Diff.diffArrays(oldString, newString): the runs, in order
diffArrays(oldString, newString) ==
  LET start == extractCommon([def |-> TRUE, newPos |-> -1, components |-> <<>>],
                             newString, oldString, 0)
  IN  IF start.newPos + 1 >= Len(newString) /\ start.newPos + 1 >= Len(oldString)
      THEN <<[value |-> newString, count |-> Len(newString),
              added |-> FALSE, removed |-> FALSE]>>
      ELSE buildValues(execEditLength(<<start>>, 1, newString, oldString),
                       1, 0, 0, newString, oldString)

\* ------------------------------------------------------ computeDiffSections

emptyLine == [content |-> <<>>, type |-> "empty"]

\* faulty variant of paddedColumn: the shorter column gets no padding rows
paddedColumnUnpadded(lines, type, n) ==
  [j \in 1 .. Len(lines) |-> [content |-> lines[j], type |-> type]]

\* faulty variant of paddedColumn: the padding rows come first
paddedColumnBottomJustified(lines, type, n) ==
  [j \in 1 .. n |->
     IF j > n - Len(lines)
     THEN [content |-> lines[j - (n - Len(lines))], type |-> type]
     ELSE emptyLine]

\* one column of n rows, row j carrying lines[j] with the given type while
\* j <= Len(lines) and the padding row after that
paddedColumn(lines, type, n) ==
  [j \in 1 .. n |->
     IF j <= Len(lines) THEN [content |-> lines[j], type |-> type]
     ELSE emptyLine]

typedColumn(lines, type) ==
  [j \in 1 .. Len(lines) |-> [content |-> lines[j], type |-> type]]

emptyColumn(n) == [j \in 1 .. n |-> emptyLine]

\* faulty variant of mergedSection: the longer run is cut to the shorter one
mergedSectionTruncated(lines, nextLines, leftIndex, rightIndex) ==
  LET minLen == Min(Len(lines), Len(nextLines))
  IN  [leftStart |-> leftIndex, rightStart |-> rightIndex,
       leftLines |-> paddedColumn(SubSeq(lines, 1, minLen), "remove", minLen),
       rightLines |-> paddedColumn(SubSeq(nextLines, 1, minLen), "add", minLen)]

\* a removed run followed by an added run: one section, top-justified
mergedSection(lines, nextLines, leftIndex, rightIndex) ==
  LET maxLen == Max(Len(lines), Len(nextLines))
  IN  [leftStart |-> leftIndex, rightStart |-> rightIndex,
       leftLines |-> paddedColumn(lines, "remove", maxLen),
       rightLines |-> paddedColumn(nextLines, "add", maxLen)]

\* faulty variant of addedSection: the left column repeats the added lines
addedSectionBothSides(lines, leftIndex, rightIndex) ==
  [leftStart |-> leftIndex, rightStart |-> rightIndex,
   leftLines |-> typedColumn(lines, "add"),
   rightLines |-> typedColumn(lines, "add")]

addedSection(lines, leftIndex, rightIndex) ==
  [leftStart |-> leftIndex, rightStart |-> rightIndex,
   leftLines |-> emptyColumn(Len(lines)),
   rightLines |-> typedColumn(lines, "add")]

\* faulty variant of removedSection: the right column repeats the removed lines
removedSectionBothSides(lines, leftIndex, rightIndex) ==
  [leftStart |-> leftIndex, rightStart |-> rightIndex,
   leftLines |-> typedColumn(lines, "remove"),
   rightLines |-> typedColumn(lines, "remove")]

removedSection(lines, leftIndex, rightIndex) ==
  [leftStart |-> leftIndex, rightStart |-> rightIndex,
   leftLines |-> typedColumn(lines, "remove"),
   rightLines |-> emptyColumn(Len(lines))]

\* faulty variant of equalSection: the left rows are typed Removed
equalSectionRemoved(lines, leftIndex, rightIndex) ==
  [leftStart |-> leftIndex, rightStart |-> rightIndex,
   leftLines |-> typedColumn(lines, "remove"),
   rightLines |-> typedColumn(lines, "equal")]

equalSection(lines, leftIndex, rightIndex) ==
  [leftStart |-> leftIndex, rightStart |-> rightIndex,
   leftLines |-> typedColumn(lines, "equal"),
   rightLines |-> typedColumn(lines, "equal")]

\* is changes[i] a removed run that the loop merges with changes[i + 1]
mergesAt(changes, i) ==
  changes[i].removed /\ i + 1 <= Len(changes) /\ changes[i + 1].added

\* what one pass of the loop body adds to leftIndex for run i
leftAdvance(changes, i) ==
  IF changes[i].added THEN 0 ELSE Len(changes[i].value)

\* faulty variant of rightAdvance: a merged pair advances rightIndex by the
\* removed run's length
rightAdvanceByRemoved(changes, i) ==
  IF changes[i].removed THEN (IF mergesAt(changes, i) THEN Len(changes[i].value) ELSE 0)
  ELSE Len(changes[i].value)

\* what one pass of the loop body adds to rightIndex for run i
rightAdvance(changes, i) ==
  IF mergesAt(changes, i) THEN Len(changes[i + 1].value)
  ELSE IF changes[i].removed THEN 0
  ELSE Len(changes[i].value)

\* faulty variant of sectionFor: an added run that is not merged is shown on
\* both sides
sectionForAddedAsEqual(changes, i, leftIndex, rightIndex) ==
  LET change == changes[i]
      lines == change.value
  IN  IF mergesAt(changes, i)
      THEN mergedSection(lines, changes[i + 1].value, leftIndex, rightIndex)
      ELSE IF change.removed THEN removedSection(lines, leftIndex, rightIndex)
      ELSE equalSection(lines, leftIndex, rightIndex)

\* the section the loop body builds for run i
sectionFor(changes, i, leftIndex, rightIndex) ==
  LET change == changes[i]
      lines == change.value
  IN  IF mergesAt(changes, i)
      THEN mergedSection(lines, changes[i + 1].value, leftIndex, rightIndex)
      ELSE IF change.added THEN addedSection(lines, leftIndex, rightIndex)
      ELSE IF change.removed THEN removedSection(lines, leftIndex, rightIndex)
      ELSE equalSection(lines, leftIndex, rightIndex)

\* the loop over the runs, from run i on, with the two source-line counters
RECURSIVE sectionsFrom(_, _, _, _)
sectionsFrom(changes, i, leftIndex, rightIndex) ==
  IF i > Len(changes) THEN <<>>
  ELSE LET section == sectionFor(changes, i, leftIndex, rightIndex)
       IN  (IF Len(section.leftLines) > 0 \/ Len(section.rightLines) > 0
            THEN <<section>> ELSE <<>>)
           \o sectionsFrom(changes,
                           IF mergesAt(changes, i) THEN i + 2 ELSE i + 1,
                           leftIndex + leftAdvance(changes, i),
                           rightIndex + rightAdvance(changes, i))

\* faulty variant of computeDiffSections: two empty documents are taken to
\* have nothing to align
computeDiffSectionsNoneForEmpty(left, right) ==
  IF left = <<>> /\ right = <<>> THEN <<>>
  ELSE sectionsFrom(diffArrays(split(left), split(right)), 1, 0, 0)

computeDiffSections(left, right) ==
  sectionsFrom(diffArrays(split(left), split(right)), 1, 0, 0)

\* ------------------------------------------------------------ fold model

hasChanges(section) ==
  \/ \E j \in 1 .. Len(section.leftLines) : section.leftLines[j].type /= "equal"
  \/ \E j \in 1 .. Len(section.rightLines) : section.rightLines[j].type /= "equal"

rawLength(section) == Max(Len(section.leftLines), Len(section.rightLines))

shouldFold(section, folding) ==
  folding /\ ~hasChanges(section) /\ rawLength(section) > contextLines * 2 + 1

\* faulty variant of getSectionDisplayLines: a folded section loses the
\* placeholder row
getSectionDisplayLinesNoPlaceholder(section, folding) ==
  IF shouldFold(section, folding) THEN contextLines * 2
  ELSE rawLength(section)

getSectionDisplayLines(section, folding) ==
  IF shouldFold(section, folding) THEN contextLines * 2 + 1
  ELSE rawLength(section)

\* diffSections.reduce((sum, section) => sum + getSectionDisplayLines(section), 0)
RECURSIVE totalDisplayLines(_, _)
totalDisplayLines(sections, folding) ==
  IF sections = <<>> THEN 0
  ELSE getSectionDisplayLines(Head(sections), folding)
       + totalDisplayLines(Tail(sections), folding)

\* display row at which section i (1-based) starts
sectionStartRow(sections, i, folding) ==
  totalDisplayLines(SubSeq(sections, 1, i - 1), folding)

\* number of rows of a column that are not padding
nonEmptyCount(column) ==
  Cardinality({j \in 1 .. Len(column) : column[j].type /= "empty"})

\* contents of the rows of a column that are not padding, in order
RECURSIVE nonEmptyContents(_)
nonEmptyContents(column) ==
  IF column = <<>> THEN <<>>
  ELSE (IF Head(column).type /= "empty" THEN <<Head(column).content>> ELSE <<>>)
       \o nonEmptyContents(Tail(column))

\* -------------------------------------------------------------- App state

VARIABLES
  leftContent,         \* prop: the left text
  rightContent,        \* prop: the right text as read at startup
  onSave,              \* prop: TRUE when a save sink is injected
  terminalRows,        \* process.stdout.rows
  currentLine,         \* cursor: row of the flattened, fold-aware display
  currentSection,      \* 0-based index of the section under the cursor
  scrollOffset,
  diffSections,
  totalLines,
  showHelp,
  foldingEnabled,
  horizontalOffset,
  editedRightContent,  \* the working document
  undoStack,
  showQuitConfirm,
  saveMessage,
  phase,               \* "constructed", "running" or "exited"
  lastWrite            \* the last write that succeeded: [to, text]

vars ==
  <<leftContent, rightContent, onSave, terminalRows, currentLine,
    currentSection, scrollOffset, diffSections, totalLines, showHelp,
    foldingEnabled, horizontalOffset, editedRightContent, undoStack,
    showQuitConfirm, saveMessage, phase, lastWrite>>

props == <<leftContent, rightContent, onSave, terminalRows>>

\* const viewHeight = terminalHeight - 6, terminalHeight = rows || 24
viewHeightOf(rows) == (IF rows = 0 THEN 24 ELSE rows) - 6

viewHeight == viewHeightOf(terminalRows)

\* const isEdited = editedRightContent !== rightContent
isEdited == editedRightContent /= rightContent

\* the component's state as one value, as a render sees it
State ==
  [currentLine |-> currentLine, currentSection |-> currentSection,
   scrollOffset |-> scrollOffset, diffSections |-> diffSections,
   totalLines |-> totalLines, showHelp |-> showHelp,
   foldingEnabled |-> foldingEnabled, horizontalOffset |-> horizontalOffset,
   editedRightContent |-> editedRightContent, undoStack |-> undoStack,
   showQuitConfirm |-> showQuitConfirm, saveMessage |-> saveMessage]

\* the useState initial values
InitialState(right) ==
  [currentLine |-> 0, currentSection |-> 0, scrollOffset |-> 0,
   diffSections |-> <<>>, totalLines |-> 0, showHelp |-> FALSE,
   foldingEnabled |-> TRUE, horizontalOffset |-> 0,
   editedRightContent |-> right, undoStack |-> <<>>,
   showQuitConfirm |-> FALSE, saveMessage |-> "none"]

\* ------------------------------------------------------------------ effects

\* getCurrentLineInfo / the current-section effect: 1-based index of the first
\* section whose rows reach beyond the line, 0 when there is none
RECURSIVE sectionAtFrom(_, _, _, _, _)
sectionAtFrom(sections, folding, line, i, lineCount) ==
  IF i > Len(sections) THEN 0
  ELSE IF line < lineCount + getSectionDisplayLines(sections[i], folding) THEN i
  ELSE sectionAtFrom(sections, folding, line, i + 1,
                     lineCount + getSectionDisplayLines(sections[i], folding))

sectionAt(sections, folding, line) == sectionAtFrom(sections, folding, line, 1, 0)

\* faulty variant of clampLine: a cursor out of range goes to the first row
clampLineToTop(line, total) ==
  IF line >= total /\ total > 0 THEN 0 ELSE line

\* faulty variant of clampLine: the cursor is left where it was
clampLineNever(line, total) == line

\* the clamp effect, deps [totalLines]
clampLine(line, total) ==
  IF line >= total /\ total > 0 THEN total - 1 ELSE line

\* faulty variant of autoScroll: scrolling down stops one row short
autoScrollShort(line, offset, height) ==
  IF line < offset THEN line
  ELSE IF line >= offset + height THEN line - height
  ELSE offset

\* the auto-scroll effect, deps [currentLine, viewHeight]
autoScroll(line, offset, height) ==
  IF line < offset THEN line
  ELSE IF line >= offset + height THEN line - height + 1
  ELSE offset

\* faulty variant of sectionEffect: the rows are counted as if nothing were
\* folded
sectionEffectUnfolded(c) ==
  LET i == sectionAt(c.diffSections, FALSE, c.currentLine)
  IN  IF i = 0 THEN c.currentSection ELSE i - 1

\* the current-section effect, deps [currentLine, diffSections, foldingEnabled]
sectionEffect(c) ==
  LET i == sectionAt(c.diffSections, c.foldingEnabled, c.currentLine)
  IN  IF i = 0 THEN c.currentSection ELSE i - 1

\* faulty variant of runEffects: the total is recomputed for new sections
\* only, not when the fold flag changes
runEffectsTotalBySections(p, c, fresh, mount, left, height) ==
  LET sectionsRan == mount \/ p.editedRightContent /= c.editedRightContent
      totalRan == mount \/ fresh
      clampRan == mount \/ p.totalLines /= c.totalLines
      scrollRan == mount \/ p.currentLine /= c.currentLine
      sectionRan == \/ mount \/ fresh
                    \/ p.currentLine /= c.currentLine
                    \/ p.foldingEnabled /= c.foldingEnabled
  IN  [fresh |-> sectionsRan,
       state |->
         [c EXCEPT
            !.diffSections =
              IF sectionsRan
              THEN computeDiffSections(left, c.editedRightContent) ELSE @,
            !.totalLines =
              IF totalRan
              THEN totalDisplayLines(c.diffSections, c.foldingEnabled) ELSE @,
            !.currentLine =
              IF clampRan THEN clampLine(c.currentLine, c.totalLines) ELSE @,
            !.scrollOffset =
              IF scrollRan
              THEN autoScroll(c.currentLine, c.scrollOffset, height) ELSE @,
            !.currentSection = IF sectionRan THEN sectionEffect(c) ELSE @]]

\* The effects that run after the render of state c, whose previous render
\* was of state p: each effect runs when one of its dependencies differs
\* (diffSections is a fresh array whenever the sections effect ran before
\* this render: fresh), all of them after the first render (mount). Every
\* effect reads the values of render c; the result is the state they set.
runEffects(p, c, fresh, mount, left, height) ==
  LET sectionsRan == mount \/ p.editedRightContent /= c.editedRightContent
      totalRan == mount \/ fresh \/ p.foldingEnabled /= c.foldingEnabled
      clampRan == mount \/ p.totalLines /= c.totalLines
      scrollRan == mount \/ p.currentLine /= c.currentLine
      sectionRan == \/ mount \/ fresh
                    \/ p.currentLine /= c.currentLine
                    \/ p.foldingEnabled /= c.foldingEnabled
  IN  [fresh |-> sectionsRan,
       state |->
         [c EXCEPT
            !.diffSections =
              IF sectionsRan
              THEN computeDiffSections(left, c.editedRightContent) ELSE @,
            !.totalLines =
              IF totalRan
              THEN totalDisplayLines(c.diffSections, c.foldingEnabled) ELSE @,
            !.currentLine =
              IF clampRan THEN clampLine(c.currentLine, c.totalLines) ELSE @,
            !.scrollOffset =
              IF scrollRan
              THEN autoScroll(c.currentLine, c.scrollOffset, height) ELSE @,
            !.currentSection = IF sectionRan THEN sectionEffect(c) ELSE @]]

\* render c, run its effects, render again while they changed the state
RECURSIVE settle(_, _, _, _, _, _)
settle(p, c, fresh, mount, left, height) ==
  LET r == runEffects(p, c, fresh, mount, left, height)
  IN  IF r.state = c /\ ~r.fresh THEN c
      ELSE settle(c, r.state, r.fresh, FALSE, left, height)

\* the state once the update n of state State has been rendered and all
\* effects have run
afterUpdate(n) == settle(State, n, FALSE, FALSE, leftContent, viewHeight)

commit(n) ==
  /\ currentLine' = n.currentLine
  /\ currentSection' = n.currentSection
  /\ scrollOffset' = n.scrollOffset
  /\ diffSections' = n.diffSections
  /\ totalLines' = n.totalLines
  /\ showHelp' = n.showHelp
  /\ foldingEnabled' = n.foldingEnabled
  /\ horizontalOffset' = n.horizontalOffset
  /\ editedRightContent' = n.editedRightContent
  /\ undoStack' = n.undoStack
  /\ showQuitConfirm' = n.showQuitConfirm
  /\ saveMessage' = n.saveMessage

\* ----------------------------------------------------------------- editing

\* number of non-padding right rows in the sections before section i (1-based)
RECURSIVE rightLinesBefore(_, _)
\* faulty variant of rightLinesBefore: padding rows are counted as lines
rightLinesBeforeWithPadding(sections, i) ==
  IF i <= 1 \/ sections = <<>> THEN 0
  ELSE Len(Head(sections).rightLines)
       + rightLinesBefore(Tail(sections), i - 1)

rightLinesBefore(sections, i) ==
  IF i <= 1 \/ sections = <<>> THEN 0
  ELSE nonEmptyCount(Head(sections).rightLines)
       + rightLinesBefore(Tail(sections), i - 1)

\* faulty variant of copyLeftToRight: the snapshot is pushed before the
\* section is tested for changes
copyLeftToRightPushFirst(st) ==
  LET i == sectionAt(st.diffSections, st.foldingEnabled, st.currentLine)
  IN  IF i = 0 THEN st
      ELSE LET section == st.diffSections[i]
               pushed == [st EXCEPT
                            !.undoStack = Append(@, st.editedRightContent)]
           IN  IF ~hasChanges(section) THEN pushed
               ELSE [pushed EXCEPT
                       !.editedRightContent =
                         join(splice(split(st.editedRightContent),
                                     rightLinesBefore(st.diffSections, i),
                                     nonEmptyCount(section.rightLines),
                                     nonEmptyContents(section.leftLines))),
                       !.saveMessage = "copied"]

\* faulty variant of copyLeftToRight: the left lines are inserted and the
\* section's right lines stay
copyLeftToRightInserting(st) ==
  LET i == sectionAt(st.diffSections, st.foldingEnabled, st.currentLine)
  IN  IF i = 0 THEN st
      ELSE LET section == st.diffSections[i]
           IN  IF ~hasChanges(section) THEN st
               ELSE LET rightLines == split(st.editedRightContent)
                        actualRightLineStart ==
                          rightLinesBefore(st.diffSections, i)
                        leftLinesToAdd == nonEmptyContents(section.leftLines)
                    IN  [st EXCEPT
                           !.undoStack = Append(@, st.editedRightContent),
                           !.editedRightContent =
                             join(splice(rightLines, actualRightLineStart,
                                         0, leftLinesToAdd)),
                           !.saveMessage = "copied"]

\* faulty variant of copyLeftToRight: the snapshot pushed is the text after
\* the copy
copyLeftToRightPushNew(st) ==
  LET i == sectionAt(st.diffSections, st.foldingEnabled, st.currentLine)
  IN  IF i = 0 THEN st
      ELSE LET section == st.diffSections[i]
           IN  IF ~hasChanges(section) THEN st
               ELSE LET rightLines == split(st.editedRightContent)
                        actualRightLineStart ==
                          rightLinesBefore(st.diffSections, i)
                        rightLinesToRemove == nonEmptyCount(section.rightLines)
                        leftLinesToAdd == nonEmptyContents(section.leftLines)
                        copied ==
                          join(splice(rightLines, actualRightLineStart,
                                      rightLinesToRemove, leftLinesToAdd))
                    IN  [st EXCEPT
                           !.undoStack = Append(@, copied),
                           !.editedRightContent = copied,
                           !.saveMessage = "copied"]

\* copyLeftToRight: the state the handler sets, before any effect runs
copyLeftToRight(st) ==
  LET i == sectionAt(st.diffSections, st.foldingEnabled, st.currentLine)
  IN  IF i = 0 THEN st
      ELSE LET section == st.diffSections[i]
           IN  IF ~hasChanges(section) THEN st
               ELSE LET rightLines == split(st.editedRightContent)
                        actualRightLineStart ==
                          rightLinesBefore(st.diffSections, i)
                        rightLinesToRemove == nonEmptyCount(section.rightLines)
                        leftLinesToAdd == nonEmptyContents(section.leftLines)
                    IN  [st EXCEPT
                           !.undoStack = Append(@, st.editedRightContent),
                           !.editedRightContent =
                             join(splice(rightLines, actualRightLineStart,
                                         rightLinesToRemove, leftLinesToAdd)),
                           !.saveMessage = "copied"]

\* faulty variant of copyRightToLeft: the lines are spliced in where the
\* section starts in the original right document
copyRightToLeftAtOriginalStart(st, left, right) ==
  LET i == sectionAt(st.diffSections, st.foldingEnabled, st.currentLine)
  IN  IF i = 0 THEN st
      ELSE LET section == st.diffSections[i]
               pushed == [st EXCEPT
                            !.undoStack = Append(@, st.editedRightContent)]
               originalSections == computeDiffSections(left, right)
           IN  IF i > Len(originalSections) THEN pushed
               ELSE LET originalLinesToRestore ==
                          nonEmptyContents(originalSections[i].rightLines)
                        originalRightLineStart ==
                          rightLinesBefore(originalSections, i)
                        currentLinesToRemove ==
                          nonEmptyCount(section.rightLines)
                    IN  [pushed EXCEPT
                           !.editedRightContent =
                             join(splice(split(st.editedRightContent),
                                         originalRightLineStart,
                                         currentLinesToRemove,
                                         originalLinesToRestore)),
                           !.saveMessage = "restored"]

\* copyRightToLeft: restore the original right lines of the current section
copyRightToLeft(st, left, right) ==
  LET i == sectionAt(st.diffSections, st.foldingEnabled, st.currentLine)
  IN  IF i = 0 THEN st
      ELSE LET section == st.diffSections[i]
               pushed == [st EXCEPT
                            !.undoStack = Append(@, st.editedRightContent)]
               originalSections == computeDiffSections(left, right)
           IN  IF i > Len(originalSections) THEN pushed
               ELSE LET originalLinesToRestore ==
                          nonEmptyContents(originalSections[i].rightLines)
                        currentRightLineStart ==
                          rightLinesBefore(st.diffSections, i)
                        currentLinesToRemove ==
                          nonEmptyCount(section.rightLines)
                    IN  [pushed EXCEPT
                           !.editedRightContent =
                             join(splice(split(st.editedRightContent),
                                         currentRightLineStart,
                                         currentLinesToRemove,
                                         originalLinesToRestore)),
                           !.saveMessage = "restored"]

\* faulty variant of undoLastEdit: the snapshot is restored but stays on the
\* stack
undoLastEditKeepsStack(st) ==
  IF Len(st.undoStack) = 0 THEN [st EXCEPT !.saveMessage = "nothing"]
  ELSE [st EXCEPT
          !.editedRightContent = st.undoStack[Len(st.undoStack)],
          !.saveMessage = "undone"]

\* faulty variant of undoLastEdit: the oldest snapshot is restored
undoLastEditOldest(st) ==
  IF Len(st.undoStack) = 0 THEN [st EXCEPT !.saveMessage = "nothing"]
  ELSE [st EXCEPT
          !.undoStack = SubSeq(@, 1, Len(@) - 1),
          !.editedRightContent = st.undoStack[1],
          !.saveMessage = "undone"]

\* faulty variant of undoLastEdit: the empty stack is popped all the same,
\* the working document becoming the missing entry
undoLastEditUnguarded(st) ==
  IF Len(st.undoStack) = 0
  THEN [st EXCEPT !.editedRightContent = <<>>, !.saveMessage = "undone"]
  ELSE [st EXCEPT
          !.undoStack = SubSeq(@, 1, Len(@) - 1),
          !.editedRightContent = st.undoStack[Len(st.undoStack)],
          !.saveMessage = "undone"]

\* undoLastEdit
undoLastEdit(st) ==
  IF Len(st.undoStack) = 0 THEN [st EXCEPT !.saveMessage = "nothing"]
  ELSE [st EXCEPT
          !.undoStack = SubSeq(@, 1, Len(@) - 1),
          !.editedRightContent = st.undoStack[Len(st.undoStack)],
          !.saveMessage = "undone"]

\* -------------------------------------------------------------- navigation

\* jumpToNextSection: the row to move to, -1 when the loop ends without one
RECURSIVE nextSectionRow(_, _, _, _, _)
\* faulty variant of nextSectionRow: a section starting on the cursor's row
\* counts as the next one
nextSectionRowInclusive(sections, folding, line, i, lineCount) ==
  IF i > Len(sections) THEN -1
  ELSE IF lineCount >= line /\ hasChanges(sections[i]) THEN lineCount
  ELSE nextSectionRow(sections, folding, line, i + 1,
                      lineCount + getSectionDisplayLines(sections[i], folding))

\* faulty variant of nextSectionRow: sections without changes are not skipped
nextSectionRowAnySection(sections, folding, line, i, lineCount) ==
  IF i > Len(sections) THEN -1
  ELSE IF lineCount > line THEN lineCount
  ELSE nextSectionRow(sections, folding, line, i + 1,
                      lineCount + getSectionDisplayLines(sections[i], folding))

nextSectionRow(sections, folding, line, i, lineCount) ==
  IF i > Len(sections) THEN -1
  ELSE IF lineCount > line /\ hasChanges(sections[i]) THEN lineCount
  ELSE nextSectionRow(sections, folding, line, i + 1,
                      lineCount + getSectionDisplayLines(sections[i], folding))

\* jumpToPrevSection: the last row the loop records, -1 when it records none
RECURSIVE prevSectionRow(_, _, _, _, _, _)
\* faulty variant of prevSectionRow: a section starting on the cursor's row
\* counts as a previous one
prevSectionRowInclusive(sections, folding, line, i, lineCount, target) ==
  IF i > Len(sections) THEN target
  ELSE prevSectionRow(sections, folding, line, i + 1,
                      lineCount + getSectionDisplayLines(sections[i], folding),
                      IF lineCount <= line /\ hasChanges(sections[i])
                      THEN lineCount ELSE target)

prevSectionRow(sections, folding, line, i, lineCount, target) ==
  IF i > Len(sections) THEN target
  ELSE prevSectionRow(sections, folding, line, i + 1,
                      lineCount + getSectionDisplayLines(sections[i], folding),
                      IF lineCount < line /\ hasChanges(sections[i])
                      THEN lineCount ELSE target)

jumpToNextSection(st) ==
  LET row == nextSectionRow(st.diffSections, st.foldingEnabled,
                            st.currentLine, 1, 0)
  IN  IF row >= 0 THEN [st EXCEPT !.currentLine = row] ELSE st

jumpToPrevSection(st) ==
  LET row == prevSectionRow(st.diffSections, st.foldingEnabled,
                            st.currentLine, 1, 0, -1)
  IN  IF row >= 0 THEN [st EXCEPT !.currentLine = row] ELSE st

lineUp(st) == [st EXCEPT !.currentLine = Max(0, @ - 1)]

lineDown(st) == [st EXCEPT !.currentLine = Min(st.totalLines - 1, @ + 1)]

pageUp(st, height) == [st EXCEPT !.currentLine = Max(0, @ - height)]

\* faulty variant of pageDown: the move is not limited to the last row
pageDownUnclamped(st, height) == [st EXCEPT !.currentLine = @ + height]

pageDown(st, height) ==
  [st EXCEPT !.currentLine = Min(st.totalLines - 1, @ + height)]

toggleFolding(st) == [st EXCEPT !.foldingEnabled = ~@]

\* ---------------------------------------------------------------- rendering

\* process.stdout.columns || 80: the session has no terminal to ask
terminalWidth == 80

\* Math.floor((width - 3) / 2)
columnWidthOf(width) == (width - 3) \div 2

\* Math.max(10, columnWidth - 6)
contentWidthOf(width) == Max(10, columnWidthOf(width) - 6)

getPrefixForType(type) ==
  CASE type = "add" -> <<"+", " ">>
    [] type = "remove" -> <<"-", " ">>
    [] OTHER -> <<" ", " ">>

\* a text is the sequence of its characters; the two marks the programs
\* print are characters of their own
HorizontalEllipsis == "HORIZONTAL ELLIPSIS"

MidlineEllipsis == "MIDLINE HORIZONTAL ELLIPSIS"

spaces(n) == [j \in 1 .. n |-> " "]

digitChar(d) ==
  CASE d = 0 -> "0" [] d = 1 -> "1" [] d = 2 -> "2" [] d = 3 -> "3"
    [] d = 4 -> "4" [] d = 5 -> "5" [] d = 6 -> "6" [] d = 7 -> "7"
    [] d = 8 -> "8" [] d = 9 -> "9"

\* Number.prototype.toString of a natural number
RECURSIVE toString(_)
toString(n) ==
  IF n < 10 THEN <<digitChar(n)>>
  ELSE toString(n \div 10) \o <<digitChar(n % 10)>>

\* String.prototype.padStart
padStart(str, width) == spaces(width - Len(str)) \o str

\* the line-number column of a cell
lineNumberColumn(line, lineNum) ==
  IF line.type /= "empty" THEN padStart(toString(lineNum), 4) ELSE spaces(4)

\* padToWidth of the renderer, pad of the dump
padToWidth(str, width) ==
  IF Len(str) >= width THEN SubSeq(str, 1, width)
  ELSE str \o spaces(width - Len(str))

\* truncate of the dump
truncate(str, max) ==
  IF Len(str) > max THEN SubSeq(str, 1, max - 1) \o <<HorizontalEllipsis>>
  ELSE str

\* applyScrollAndTruncate of the renderer
applyScrollAndTruncate(text, offset, maxWidth) ==
  truncate(IF offset > 0 THEN SubSeq(text, offset + 1, Len(text)) ELSE text,
           maxWidth)

getDisplayContent(line) ==
  IF line.type = "empty" THEN <<MidlineEllipsis>> ELSE line.content

\* section.leftLines[i] || { content: '', type: 'empty' }, i counted from 0
lineAt(lines, i) == IF i < Len(lines) THEN lines[i + 1] ELSE emptyLine

\* faulty variant of foldedLinesCount: the rows the fold still shows are
\* counted as the rows it hides
foldedLinesCountShown(section, folding) ==
  IF shouldFold(section, folding) THEN contextLines * 2 ELSE 0

\* shouldFold ? maxLines - (contextLines * 2) : 0
foldedLinesCount(section, folding) ==
  IF shouldFold(section, folding)
  THEN rawLength(section) - contextLines * 2
  ELSE 0

\* the counters after row i of the section has gone by
countersAfter(section, i, acc) ==
  [acc EXCEPT
     !.globalLineIndex = @ + 1,
     !.leftLineNum =
       IF lineAt(section.leftLines, i).type /= "empty" THEN @ + 1 ELSE @,
     !.rightLineNum =
       IF lineAt(section.rightLines, i).type /= "empty" THEN @ + 1 ELSE @]

\* the counters after the fold placeholder has gone by
countersAfterFold(section, folding, acc) ==
  [acc EXCEPT
     !.globalLineIndex = @ + 1,
     !.leftLineNum = @ + foldedLinesCount(section, folding),
     !.rightLineNum = @ + foldedLinesCount(section, folding)]

\* the renderer's placeholder element
foldElement(st, section, acc) ==
  [key |-> acc.globalLineIndex,
   fold |-> TRUE,
   left |-> <<MidlineEllipsis, " ">>
              \o toString(foldedLinesCount(section, st.foldingEnabled))
              \o <<" unchanged lines (press F to unfold) ", MidlineEllipsis>>,
   right |-> <<>>,
   isCurrentLine |-> FALSE]

\* the renderer's element of row i of the section
lineElement(st, width, section, i, acc) ==
  LET leftLine == lineAt(section.leftLines, i)
      rightLine == lineAt(section.rightLines, i)
      cell(line, lineNum) ==
        padToWidth(lineNumberColumn(line, lineNum)
                     \o getPrefixForType(line.type)
                     \o applyScrollAndTruncate(getDisplayContent(line),
                                               st.horizontalOffset,
                                               contentWidthOf(width)),
                   columnWidthOf(width))
  IN  [key |-> acc.globalLineIndex,
       fold |-> FALSE,
       left |-> cell(leftLine, acc.leftLineNum),
       right |-> cell(rightLine, acc.rightLineNum),
       isCurrentLine |-> acc.globalLineIndex = st.currentLine]

\* the loops of renderLines from row i of section k on
RECURSIVE renderFrom(_, _, _, _, _, _)
renderFrom(st, height, width, k, i, acc) ==
  IF k > Len(st.diffSections) THEN acc.lines
  ELSE
    LET section == st.diffSections[k]
        inViewport ==
          /\ acc.globalLineIndex >= st.scrollOffset
          /\ acc.globalLineIndex < st.scrollOffset + height
    IN  IF i >= rawLength(section)
        THEN renderFrom(st, height, width, k + 1, 0, acc)
        ELSE IF shouldFold(section, st.foldingEnabled) /\ i = contextLines
        THEN renderFrom(st, height, width, k,
                        rawLength(section) - contextLines,
                        countersAfterFold(section, st.foldingEnabled,
                          [acc EXCEPT
                             !.lines =
                               IF inViewport
                               THEN Append(@, foldElement(st, section, acc))
                               ELSE @]))
        ELSE IF acc.globalLineIndex < st.scrollOffset
        THEN renderFrom(st, height, width, k, i + 1,
                        countersAfter(section, i, acc))
        ELSE IF acc.globalLineIndex >= st.scrollOffset + height
        THEN acc.lines
        ELSE renderFrom(st, height, width, k, i + 1,
                        countersAfter(section, i,
                          [acc EXCEPT
                             !.lines =
                               Append(@, lineElement(st, width, section,
                                                     i, acc))]))

\* renderLines: the elements of the rows in the viewport
renderLines(st, height, width) ==
  renderFrom(st, height, width, 1, 0,
             [lines |-> <<>>, globalLineIndex |-> 0,
              leftLineNum |-> 1, rightLineNum |-> 1])

\* the text of an element as the terminal shows it
elementText(element) ==
  IF element.fold THEN element.left
  ELSE element.left \o <<" ", "|", " ">> \o element.right

\* the dump's placeholder line
dumpFoldLine(options, section) ==
  <<MidlineEllipsis, " ">>
    \o toString(foldedLinesCount(section, options.foldingEnabled))
    \o <<" unchanged lines ", MidlineEllipsis>>

\* the dump's line of row i of the section
dumpLine(options, section, i, acc) ==
  LET leftLine == lineAt(section.leftLines, i)
      rightLine == lineAt(section.rightLines, i)
      columnWidth == columnWidthOf(options.width)
      display(line) ==
        IF line.type = "empty" THEN <<MidlineEllipsis>>
        ELSE truncate(line.content, contentWidthOf(options.width))
      cell(line, lineNum) ==
        padToWidth(lineNumberColumn(line, lineNum)
                     \o getPrefixForType(line.type) \o display(line),
                   columnWidth)
  IN  cell(leftLine, acc.leftLineNum) \o <<" ", "|", " ">>
        \o cell(rightLine, acc.rightLineNum)

\* the loops of dumpDiff from row i of section k on
RECURSIVE dumpFrom(_, _, _, _, _)
dumpFrom(sections, options, k, i, acc) ==
  IF k > Len(sections) THEN acc.lines
  ELSE
    LET section == sections[k]
    IN  IF i >= rawLength(section)
        THEN dumpFrom(sections, options, k + 1, 0, acc)
        ELSE IF shouldFold(section, options.foldingEnabled) /\ i = contextLines
        THEN dumpFrom(sections, options, k,
                      rawLength(section) - contextLines,
                      countersAfterFold(section, options.foldingEnabled,
                        [acc EXCEPT
                           !.lines = Append(@, dumpFoldLine(options,
                                                            section))]))
        ELSE IF /\ options.scrollOffset > 0
                /\ acc.globalLineIndex < options.scrollOffset
        THEN dumpFrom(sections, options, k, i + 1,
                      countersAfter(section, i, acc))
        ELSE IF /\ options.viewHeight > 0
                /\ acc.globalLineIndex
                     >= options.scrollOffset + options.viewHeight
        THEN acc.lines
        ELSE dumpFrom(sections, options, k, i + 1,
                      countersAfter(section, i,
                        [acc EXCEPT
                           !.lines = Append(@, dumpLine(options, section,
                                                        i, acc))]))

\* dumpDiff: the lines it prints, the three lines of the header first
dumpDiff(left, right, leftFile, rightFile, options) ==
  dumpFrom(computeDiffSections(left, right), options, 1, 0,
           [lines |-> << <<"-", "-", "-", " ", leftFile>>,
                         <<"+", "+", "+", " ", rightFile>>,
                         <<>> >>,
            globalLineIndex |-> 0, leftLineNum |-> 1, rightLineNum |-> 1])

\* ---------------------------------------------------------------- documents

\* the lines documents are made of: "a", "b" and, for the aligner, ""
EdgeLines == {<<"a">>, <<"b">>}

AlignLines == EdgeLines \cup {<<>>}

SeqsUpTo(S, n) == UNION {[1 .. k -> S] : k \in 0 .. n}

\* the lines before and after the long block of a session document
EdgeSeqs == {<<>>, <<<<"a">>>>, <<<<"b">>>>}

\* the longest run that is never folded: 2 * contextLines + 1 lines
ExactBlock == [j \in 1 .. contextLines * 2 + 1 |-> <<"a">>]

\* a run long enough to fold: more than 2 * contextLines + 1 lines
LongBlock == [j \in 1 .. contextLines * 2 + 1 + BlockExtra |-> <<"a">>]

\* every text of 1 .. MaxDocLines lines over AlignLines
AlignDocs == {join(ls) : ls \in SeqsUpTo(AlignLines, MaxDocLines) \ {<<>>}}

\* the documents of the editing sessions: a left text starts with "a" or "b",
\* a right text has no line "a" outside the long block
EditLeftDocs ==
  {join(pre \o block \o post) :
     pre \in EdgeSeqs \ {<<>>},
     block \in {<<>>, LongBlock},
     post \in EdgeSeqs \ {<<<<"a">>>>}}

EditRightDocs ==
  {join(pre \o block \o post) :
     pre \in EdgeSeqs \ {<<<<"a">>>>},
     block \in {<<>>, LongBlock},
     post \in EdgeSeqs \ {<<<<"a">>>>}}
  \cup {join(ExactBlock), join(<<<<"b">>, <<>>>>)}

\* the documents of the sessions in which every key is pressed
KeyLeftDocs == {join(<<<<"b">>>> \o LongBlock \o <<<<"b">>>>)}

KeyRightDocs ==
  {join(<<<<"a">>>> \o LongBlock), join(LongBlock \o <<<<"b">>, <<"b">>>>)}

\* process.stdout.rows of the sessions: view heights 1 and 4
SessionRows == {7, 10}

NoWrite == [to |-> "none", text |-> <<>>]

\* ------------------------------------------------------------------ actions

InitWith(docs, rows) ==
  /\ leftContent \in docs
  /\ rightContent \in docs
  /\ onSave \in BOOLEAN
  /\ terminalRows \in rows
  /\ currentLine = 0
  /\ currentSection = 0
  /\ scrollOffset = 0
  /\ diffSections = <<>>
  /\ totalLines = 0
  /\ showHelp = FALSE
  /\ foldingEnabled = TRUE
  /\ horizontalOffset = 0
  /\ editedRightContent = rightContent
  /\ undoStack = <<>>
  /\ showQuitConfirm = FALSE
  /\ saveMessage = "none"
  /\ phase = "constructed"
  /\ lastWrite = NoWrite

InitDocs(left, right, rows) ==
  InitWith(left \cup right, rows) /\ leftContent \in left /\ rightContent \in right

Init == InitDocs(KeyLeftDocs, KeyRightDocs, {10})

InitAlign == InitWith(AlignDocs, {7}) /\ onSave = FALSE

\* the first render and the effects after it, until nothing changes
Mount ==
  /\ phase = "constructed"
  /\ phase' = "running"
  /\ \E n \in {settle(State, State, FALSE, TRUE, leftContent, viewHeight)} :
       commit(n)
  /\ UNCHANGED <<props, lastWrite>>

\* faulty variant of mainInput: the help overlay does not stop the keys
mainInputDuringHelp == phase = "running" /\ ~showQuitConfirm

\* a key is handled: no overlay is shown
mainInput == phase = "running" /\ ~showQuitConfirm /\ ~showHelp

\* a handler that only sets component state: n is what it sets
handle(n) ==
  /\ \E m \in {afterUpdate(n)} : commit(m)
  /\ UNCHANGED <<props, phase, lastWrite>>

\* faulty variant of saveFile: the original right text is written
saveFileOriginal(ok) ==
  IF ok
  THEN /\ lastWrite' = [to |-> IF onSave THEN "sink" ELSE "file",
                        text |-> rightContent]
       /\ \E m \in {afterUpdate([State EXCEPT !.saveMessage = "saved"])} :
            commit(m)
  ELSE /\ lastWrite' = lastWrite
       /\ \E m \in {afterUpdate([State EXCEPT !.saveMessage = "error"])} :
            commit(m)

\* faulty variant of saveFile: success is reported outside the try block,
\* also after a write that threw
saveFileAlwaysSaved(ok) ==
  /\ lastWrite' = IF ok THEN [to |-> IF onSave THEN "sink" ELSE "file",
                              text |-> editedRightContent]
                  ELSE lastWrite
  /\ \E m \in {afterUpdate([State EXCEPT !.saveMessage = "saved"])} :
       commit(m)

\* faulty variant of saveFile: a successful save starts a new undo history
saveFileClearsStack(ok) ==
  IF ok
  THEN /\ lastWrite' = [to |-> IF onSave THEN "sink" ELSE "file",
                        text |-> editedRightContent]
       /\ \E m \in {afterUpdate([State EXCEPT !.saveMessage = "saved",
                                              !.undoStack = <<>>])} :
            commit(m)
  ELSE /\ lastWrite' = lastWrite
       /\ \E m \in {afterUpdate([State EXCEPT !.saveMessage = "error"])} :
            commit(m)

\* saveFile: the write succeeds or throws
saveFile(ok) ==
  IF ok
  THEN /\ lastWrite' = [to |-> IF onSave THEN "sink" ELSE "file",
                        text |-> editedRightContent]
       /\ \E m \in {afterUpdate([State EXCEPT !.saveMessage = "saved"])} :
            commit(m)
  ELSE /\ lastWrite' = lastWrite
       /\ \E m \in {afterUpdate([State EXCEPT !.saveMessage = "error"])} :
            commit(m)

\* y in the quit confirmation: saveFile(); exit()
QuitConfirmSave ==
  /\ phase = "running" /\ showQuitConfirm
  /\ \E ok \in BOOLEAN : saveFile(ok)
  /\ phase' = "exited"
  /\ UNCHANGED props

\* n in the quit confirmation: exit()
QuitConfirmDiscard ==
  /\ phase = "running" /\ showQuitConfirm
  /\ phase' = "exited"
  /\ commit(State)
  /\ UNCHANGED <<props, lastWrite>>

\* ESC or c in the quit confirmation
QuitConfirmCancel ==
  /\ phase = "running" /\ showQuitConfirm
  /\ handle([State EXCEPT !.showQuitConfirm = FALSE])

\* any other key while an overlay is shown
IgnoredKey ==
  /\ phase = "running" /\ (showQuitConfirm \/ showHelp)
  /\ handle(State)

\* faulty variant of ToggleHelp: ? is looked at before the quit modal
ToggleHelpAnytime ==
  /\ phase = "running"
  /\ handle([State EXCEPT !.showHelp = ~@])

\* ?
ToggleHelp ==
  /\ phase = "running" /\ ~showQuitConfirm
  /\ handle([State EXCEPT !.showHelp = ~@])

\* ESC while help is shown
HelpEscape ==
  /\ phase = "running" /\ ~showQuitConfirm /\ showHelp
  /\ handle([State EXCEPT !.showHelp = FALSE])

\* Ctrl+S
Save ==
  /\ mainInput
  /\ \E ok \in BOOLEAN : saveFile(ok)
  /\ UNCHANGED <<props, phase>>

\* Ctrl+Z, [ or <
Undo ==
  /\ mainInput
  /\ handle(undoLastEdit(State))

\* ] or >
CopyLeftToRight ==
  /\ mainInput
  /\ Len(undoStack) < MaxUndo
  /\ handle(copyLeftToRight(State))

\* f
ToggleFolding ==
  /\ mainInput
  /\ handle(toggleFolding(State))

\* left arrow
ScrollLeft ==
  /\ mainInput
  /\ handle([State EXCEPT !.horizontalOffset = Max(0, @ - 5)])

\* right arrow
ScrollRight ==
  /\ mainInput
  /\ horizontalOffset < 5 * MaxHScroll
  /\ handle([State EXCEPT !.horizontalOffset = @ + 5])

\* q or Ctrl+C: handleQuit
\* faulty variant of Quit: exits without asking
QuitAlwaysExits ==
  /\ mainInput
  /\ phase' = "exited"
  /\ commit(State)
  /\ UNCHANGED <<props, lastWrite>>

\* faulty variant of Quit: always asks
QuitAlwaysConfirms ==
  /\ mainInput
  /\ handle([State EXCEPT !.showQuitConfirm = TRUE])

Quit ==
  /\ mainInput
  /\ IF isEdited
     THEN handle([State EXCEPT !.showQuitConfirm = TRUE])
     ELSE /\ phase' = "exited"
          /\ commit(State)
          /\ UNCHANGED <<props, lastWrite>>

LineUp == mainInput /\ handle(lineUp(State))

LineDown == mainInput /\ handle(lineDown(State))

NextSection == mainInput /\ handle(jumpToNextSection(State))

PrevSection == mainInput /\ handle(jumpToPrevSection(State))

PageUp == mainInput /\ handle(pageUp(State, viewHeight))

PageDown == mainInput /\ handle(pageDown(State, viewHeight))

\* the timer of the save-message effect fires
ClearSaveMessage ==
  /\ phase = "running" /\ saveMessage /= "none"
  /\ handle([State EXCEPT !.saveMessage = "none"])

\* copyRightToLeft is called for the current section (no key is bound to it)
CopyRightToLeft ==
  /\ mainInput
  /\ Len(undoStack) < MaxUndo
  /\ handle(copyRightToLeft(State, leftContent, rightContent))

Next ==
  \/ Mount
  \/ QuitConfirmSave \/ QuitConfirmDiscard \/ QuitConfirmCancel \/ IgnoredKey
  \/ ToggleHelp \/ HelpEscape
  \/ Save \/ Undo \/ CopyLeftToRight \/ ToggleFolding
  \/ ScrollLeft \/ ScrollRight \/ Quit
  \/ LineUp \/ LineDown \/ NextSection \/ PrevSection \/ PageUp \/ PageDown
  \/ ClearSaveMessage

\* navigation, fold toggle, edit and undo
NextEdit ==
  \/ Mount
  \/ Undo \/ CopyLeftToRight \/ CopyRightToLeft \/ ToggleFolding
  \/ LineUp \/ LineDown \/ NextSection \/ PrevSection \/ PageUp \/ PageDown

InitEdit == InitDocs(EditLeftDocs, EditRightDocs, SessionRows) /\ onSave = FALSE

SpecEdit == InitEdit /\ [][NextEdit]_vars

\* the keys that move the cursor, fold, edit and undo
NextKeys ==
  \/ Mount
  \/ Undo \/ CopyLeftToRight \/ ToggleFolding
  \/ LineUp \/ LineDown \/ NextSection \/ PrevSection \/ PageUp \/ PageDown

SpecKeys == InitEdit /\ [][NextKeys]_vars

\* the keys that save, quit, open and close the overlays, edit and undo, with
\* one key each that moves the cursor, folds and scrolls sideways
NextSession ==
  \/ Mount
  \/ QuitConfirmSave \/ QuitConfirmDiscard \/ QuitConfirmCancel \/ IgnoredKey
  \/ ToggleHelp \/ HelpEscape
  \/ Save \/ Undo \/ CopyLeftToRight \/ ToggleFolding
  \/ ScrollRight \/ Quit
  \/ LineDown

SpecSession == Init /\ [][NextSession]_vars

\* the session as the keys drive it
Spec == Init /\ [][Next]_vars

\* the session with copyRightToLeft callable as well
SpecOps == Init /\ [][Next \/ CopyRightToLeft]_vars

\* the aligner on every pair of small documents
SpecAlign == InitAlign /\ [][Mount]_vars

\* ------------------------------------------------------------------ claims

\* the classifier's runs for the two texts of the session
Changes == diffArrays(split(leftContent), split(rightContent))

\* is run i a removed run immediately followed by an added run
PairAt(ch, i) == i + 1 <= Len(ch) /\ ch[i].removed /\ ch[i + 1].added

\* number of removed+added pairs that start before run i
PairsBefore(ch, i) == Cardinality({k \in 1 .. i - 1 : PairAt(ch, k)})

\* index of the section that starts with run i
SectionOfRun(ch, i) == i - PairsBefore(ch, i)

Row(content, type) == [content |-> content, type |-> type]

PaddingRow == [content |-> <<>>, type |-> "empty"]

\* all rows of one side, section after section
RECURSIVE AllRows(_, _)
AllRows(sections, side) ==
  IF sections = <<>> THEN <<>>
  ELSE (IF side = "left" THEN Head(sections).leftLines
        ELSE Head(sections).rightLines) \o AllRows(Tail(sections), side)

\* contents of the rows of the given type, in order
RECURSIVE ContentsOfType(_, _)
ContentsOfType(rows, type) ==
  IF rows = <<>> THEN <<>>
  ELSE (IF Head(rows).type = type THEN <<Head(rows).content>> ELSE <<>>)
       \o ContentsOfType(Tail(rows), type)

\* can a be obtained from b by deleting lines
RECURSIVE IsSubsequence(_, _)
IsSubsequence(a, b) ==
  IF a = <<>> THEN TRUE
  ELSE IF b = <<>> THEN FALSE
  ELSE IF Head(a) = Head(b) THEN IsSubsequence(Tail(a), Tail(b))
  ELSE IsSubsequence(a, Tail(b))

\* C1: every section of the aligner has as many left rows as right rows,
\* at startup and after every copy, restore and undo.
C1_EqualColumns ==
  \A k \in 1 .. Len(diffSections) :
    Len(diffSections[k].leftLines) = Len(diffSections[k].rightLines)

\* a section padded on one side, computed after an edit
C1_Witness ==
  /\ undoStack /= <<>>
  /\ editedRightContent /= rightContent
  /\ \E k \in 1 .. Len(diffSections) :
       /\ \E j \in 1 .. Len(diffSections[k].rightLines) :
            diffSections[k].rightLines[j].type = "empty"
       /\ \E j \in 1 .. Len(diffSections[k].leftLines) :
            diffSections[k].leftLines[j].type = "remove"
       /\ \E j \in 1 .. Len(diffSections[k].rightLines) :
            diffSections[k].rightLines[j].type = "add"

\* C2: a removed run immediately followed by an added run gives exactly one
\* section of max(len(removed), len(added)) rows: row j is {Removed,
\* removed[j]} or padding on the left, {Added, added[j]} or padding on the
\* right; the added run gives no section of its own.
C2_MergedPair ==
  phase = "running" =>
    LET ch == Changes
    IN  /\ Len(diffSections)
             = Len(ch) - Cardinality({i \in 1 .. Len(ch) : PairAt(ch, i)})
        /\ \A i \in 1 .. Len(ch) :
             PairAt(ch, i) =>
               LET removed == ch[i].value
                   added == ch[i + 1].value
                   m == IF Len(removed) >= Len(added)
                        THEN Len(removed) ELSE Len(added)
                   sec == diffSections[SectionOfRun(ch, i)]
               IN  /\ Len(sec.leftLines) = m
                   /\ Len(sec.rightLines) = m
                   /\ \A j \in 1 .. m :
                        /\ sec.leftLines[j] =
                             IF j <= Len(removed) THEN Row(removed[j], "remove")
                             ELSE PaddingRow
                        /\ sec.rightLines[j] =
                             IF j <= Len(added) THEN Row(added[j], "add")
                             ELSE PaddingRow

\* a merged pair with more removed than added lines, after an equal section
C2_Witness ==
  /\ phase = "running"
  /\ \E i \in 2 .. Len(Changes) :
       /\ PairAt(Changes, i)
       /\ Len(Changes[i].value) > Len(Changes[i + 1].value)
       /\ Len(diffSections) = i

\* C3: an added run not preceded by a removed run gives one section, left
\* column all padding, right column the run's lines typed Added; when the
\* right text is the left text with lines inserted, no row is Removed and the
\* Added rows are the inserted lines.
C3_StandaloneAdded ==
  phase = "running" =>
    LET ch == Changes
        leftRows == AllRows(diffSections, "left")
        rightRows == AllRows(diffSections, "right")
    IN  /\ \A i \in 1 .. Len(ch) :
             (ch[i].added /\ ~(i > 1 /\ ch[i - 1].removed)) =>
               LET sec == diffSections[SectionOfRun(ch, i)]
               IN  /\ Len(sec.leftLines) = Len(ch[i].value)
                   /\ Len(sec.rightLines) = Len(ch[i].value)
                   /\ \A j \in 1 .. Len(ch[i].value) :
                        /\ sec.leftLines[j] = PaddingRow
                        /\ sec.rightLines[j] = Row(ch[i].value[j], "add")
        /\ IsSubsequence(split(leftContent), split(rightContent)) =>
             /\ ContentsOfType(leftRows, "remove") = <<>>
             /\ ContentsOfType(rightRows, "equal") = split(leftContent)
             /\ Len(ContentsOfType(rightRows, "add"))
                  = Len(split(rightContent)) - Len(split(leftContent))
             /\ \A j \in 1 .. Len(rightRows) : rightRows[j].type /= "empty"

\* lines inserted into the left text, before and after a kept line
C3_Witness ==
  /\ phase = "running"
  /\ IsSubsequence(split(leftContent), split(rightContent))
  /\ Len(Changes) = 3
  /\ Changes[1].added /\ Changes[3].added
  /\ Len(diffSections) = 3

\* C4: a removed run not followed by an added run gives one section, right
\* column all padding, left column the run's lines typed Removed; when the
\* right text is the left text with lines deleted, no row is Added and the
\* Removed rows are the deleted lines.
C4_StandaloneRemoved ==
  phase = "running" =>
    LET ch == Changes
        leftRows == AllRows(diffSections, "left")
        rightRows == AllRows(diffSections, "right")
    IN  /\ \A i \in 1 .. Len(ch) :
             (ch[i].removed /\ ~PairAt(ch, i)) =>
               LET sec == diffSections[SectionOfRun(ch, i)]
               IN  /\ Len(sec.leftLines) = Len(ch[i].value)
                   /\ Len(sec.rightLines) = Len(ch[i].value)
                   /\ \A j \in 1 .. Len(ch[i].value) :
                        /\ sec.rightLines[j] = PaddingRow
                        /\ sec.leftLines[j] = Row(ch[i].value[j], "remove")
        /\ IsSubsequence(split(rightContent), split(leftContent)) =>
             /\ ContentsOfType(rightRows, "add") = <<>>
             /\ ContentsOfType(leftRows, "equal") = split(rightContent)
             /\ Len(ContentsOfType(leftRows, "remove"))
                  = Len(split(leftContent)) - Len(split(rightContent))
             /\ \A j \in 1 .. Len(leftRows) : leftRows[j].type /= "empty"

\* lines deleted from the left text, before and after a kept line
C4_Witness ==
  /\ phase = "running"
  /\ IsSubsequence(split(rightContent), split(leftContent))
  /\ Len(Changes) = 3
  /\ Changes[1].removed /\ Changes[3].removed
  /\ Len(diffSections) = 3

\* C5: a text aligned with itself gives exactly one section, every row Equal
\* on both sides, the contents being the text's lines in order.
C5_IdenticalDocuments ==
  (phase = "running" /\ leftContent = rightContent) =>
    /\ Len(diffSections) = 1
    /\ LET sec == diffSections[1]
           lines == ContentsOfType(sec.leftLines, "equal")
       IN  /\ Len(sec.leftLines) = Len(lines)
           /\ sec.rightLines = sec.leftLines
           /\ join(lines) = leftContent
           /\ \A j \in 1 .. Len(lines) :
                \A c \in 1 .. Len(lines[j]) : lines[j][c] /= NL

\* a text of several lines, one of them empty, aligned with itself
C5_Witness ==
  /\ phase = "running"
  /\ leftContent = rightContent
  /\ Len(diffSections) = 1
  /\ Len(diffSections[1].leftLines) = MaxDocLines
  /\ \E j \in 1 .. MaxDocLines : diffSections[1].leftLines[j].content = <<>>
  /\ \E j \in 1 .. MaxDocLines : diffSections[1].leftLines[j].content /= <<>>

\* C6: two empty texts give exactly one section of exactly one row, Equal on
\* both sides with empty content.
C6_EmptyDocuments ==
  (phase = "running" /\ leftContent = <<>> /\ rightContent = <<>>) =>
    diffSections = <<[leftStart |-> 0, rightStart |-> 0,
                      leftLines |-> <<Row(<<>>, "equal")>>,
                      rightLines |-> <<Row(<<>>, "equal")>>]>>

\* the session of two empty texts, mounted
C6_Witness ==
  /\ phase = "running"
  /\ leftContent = <<>>
  /\ rightContent = <<>>
  /\ totalLines = 1

\* rows of the side that are not padding, in the sections before section k
SourceLinesBefore(sections, k, side) ==
  Len(SelectSeq(AllRows(SubSeq(sections, 1, k - 1), side),
                LAMBDA row : row.type /= "empty"))

\* C7: leftStart and rightStart of every section are the numbers of
\* non-padding left and right rows in the sections before it.
C7_SectionStarts ==
  phase = "running" =>
    \A k \in 1 .. Len(diffSections) :
      /\ diffSections[k].leftStart = SourceLinesBefore(diffSections, k, "left")
      /\ diffSections[k].rightStart = SourceLinesBefore(diffSections, k, "right")

\* a section after a merged pair of unequal runs: the two starts differ
C7_Witness ==
  /\ phase = "running"
  /\ \E k \in 2 .. Len(diffSections) :
       /\ diffSections[k].leftStart /= diffSections[k].rightStart
       /\ \E j \in 1 .. Len(diffSections[k - 1].leftLines) :
            /\ diffSections[k - 1].leftLines[j].type = "remove"
            /\ diffSections[k - 1].rightLines[j].type = "add"

\* sum of the display row counts of the sections under the fold flag
TotalVisibleRows(sections, folding) ==
  LET RECURSIVE sum(_)
      sum(k) == IF k = 0 THEN 0
                ELSE sum(k - 1) + getSectionDisplayLines(sections[k], folding)
  IN  sum(Len(sections))

\* C8: whenever a key can be handled, 0 <= cursor < totalVisibleRows, the sum
\* of the display row counts of the current sections under the current fold
\* flag, after any navigation, fold toggle, edit and undo.
C8_CursorInRange ==
  phase = "running" =>
    /\ 0 <= currentLine
    /\ currentLine < TotalVisibleRows(diffSections, foldingEnabled)

\* the cursor on the last visible row while folding hides rows
C8_Witness ==
  /\ phase = "running"
  /\ foldingEnabled
  /\ currentLine > 0
  /\ currentLine = TotalVisibleRows(diffSections, TRUE) - 1
  /\ TotalVisibleRows(diffSections, TRUE) < TotalVisibleRows(diffSections, FALSE)

\* C9: for a viewport of at least one row, once a cursor change is processed,
\* scrollOffset >= 0 and scrollOffset <= cursor <= scrollOffset + height - 1.
C9_CursorInViewport ==
  (phase = "running" /\ viewHeight >= 1) =>
    /\ scrollOffset >= 0
    /\ scrollOffset <= currentLine
    /\ currentLine <= scrollOffset + viewHeight - 1

\* the viewport scrolled down to keep the cursor on its last row
C9_Witness ==
  /\ phase = "running"
  /\ viewHeight > 1
  /\ scrollOffset > 0
  /\ currentLine = scrollOffset + viewHeight - 1

\* the section has no Removed and no Added row
Unchanged(section) ==
  \A j \in 1 .. Len(section.leftLines) :
    /\ section.leftLines[j].type \notin {"remove", "add"}
    /\ section.rightLines[j].type \notin {"remove", "add"}

\* the display row count the fold rule prescribes
FoldedCount(section, folding) ==
  IF folding /\ Unchanged(section)
       /\ Len(section.leftLines) > 2 * contextLines + 1
  THEN 2 * contextLines + 1
  ELSE Len(section.leftLines)

\* C10: a section's display row count is 2*context+1 when folding is on, the
\* section has no changes and is longer than 2*context+1 rows, and its raw
\* length otherwise; it never exceeds the raw length, and a fold toggle
\* leaves the sections alone, so that two toggles restore the total.
C10_FoldedRowCount ==
  /\ [](\A k \in 1 .. Len(diffSections) : \A f \in BOOLEAN :
          /\ getSectionDisplayLines(diffSections[k], f)
               = FoldedCount(diffSections[k], f)
          /\ getSectionDisplayLines(diffSections[k], f)
               <= Len(diffSections[k].leftLines))
  /\ [][foldingEnabled' /= foldingEnabled =>
          /\ diffSections' = diffSections
          /\ totalLines' = totalLines
               + TotalVisibleRows(diffSections, foldingEnabled')
               - TotalVisibleRows(diffSections, foldingEnabled)]_vars

\* folding switched off over a long unchanged section next to a changed one
C10_Witness ==
  /\ phase = "running"
  /\ ~foldingEnabled
  /\ \E k \in 1 .. Len(diffSections) :
       /\ Unchanged(diffSections[k])
       /\ getSectionDisplayLines(diffSections[k], TRUE)
            < getSectionDisplayLines(diffSections[k], FALSE)
  /\ \E k \in 1 .. Len(diffSections) :
       /\ ~Unchanged(diffSections[k])
       /\ Len(diffSections[k].leftLines) > 2 * contextLines + 1
  /\ totalLines = TotalVisibleRows(diffSections, FALSE)

\* C11: once a fold toggle is processed the cursor is min(previous cursor,
\* new total rows - 1), unchanged when still in range and on the last row
\* otherwise, and the cursor is inside the viewport again.
C11_ToggleClampsCursor ==
  [][foldingEnabled' /= foldingEnabled =>
       /\ currentLine'
            = Min(currentLine,
                  TotalVisibleRows(diffSections', foldingEnabled') - 1)
       /\ scrollOffset' >= 0
       /\ scrollOffset' <= currentLine'
       /\ currentLine' <= scrollOffset' + viewHeight - 1]_vars

\* a fold toggle that takes rows away from under the cursor and moves it
C11_Witness ==
  /\ ~foldingEnabled
  /\ currentLine >= TotalVisibleRows(diffSections, TRUE)
  /\ ENABLED (ToggleFolding /\ currentLine' < currentLine
                            /\ scrollOffset' < scrollOffset)

\* display row on which section k starts under the fold flag
StartRow(sections, k, folding) ==
  TotalVisibleRows(SubSeq(sections, 1, k - 1), folding)

\* the sections with changes that start below the cursor's row
ChangedAfter ==
  {k \in 1 .. Len(diffSections) :
     /\ ~Unchanged(diffSections[k])
     /\ StartRow(diffSections, k, foldingEnabled) > currentLine}

\* the sections with changes that start above the cursor's row
ChangedBefore ==
  {k \in 1 .. Len(diffSections) :
     /\ ~Unchanged(diffSections[k])
     /\ StartRow(diffSections, k, foldingEnabled) < currentLine}

SetMin(S) == CHOOSE x \in S : \A y \in S : x <= y

SetMax(S) == CHOOSE x \in S : \A y \in S : x >= y

\* where the next-changed-section command has to leave the cursor, the
\* scroll offset and the current section
NextSectionGoal(line, scroll, section) ==
  IF ChangedAfter /= {}
  THEN line = StartRow(diffSections, SetMin(ChangedAfter), foldingEnabled)
  ELSE line = currentLine /\ scroll = scrollOffset /\ section = currentSection

\* C12: the next-changed-section command moves the cursor to the fold-aware
\* start row of the first section with changes that starts strictly below
\* the cursor; without such a section the cursor, the scroll offset and the
\* current section stay as they are.
C12_NextChangedSection ==
  /\ [](mainInput =>
          LET n == afterUpdate(jumpToNextSection(State))
          IN  NextSectionGoal(n.currentLine, n.scrollOffset, n.currentSection))
  /\ [][NextSection =>
          NextSectionGoal(currentLine', scrollOffset', currentSection')]_vars

\* the command jumps from the first row over a folded section
C12_Witness ==
  /\ foldingEnabled
  /\ currentLine = 0
  /\ \E k \in 1 .. Len(diffSections) :
       /\ getSectionDisplayLines(diffSections[k], TRUE)
            < Len(diffSections[k].leftLines)
       /\ k < Len(diffSections)
  /\ ENABLED (NextSection /\ currentLine' > 2 * contextLines + 1)

\* where the previous-changed-section command has to leave the state n
PrevSectionGoal(n) ==
  IF ChangedBefore /= {}
  THEN /\ n.currentLine
            = StartRow(diffSections, SetMax(ChangedBefore), foldingEnabled)
       /\ \A k \in 1 .. Len(diffSections) :
            ( /\ ~Unchanged(diffSections[k])
              /\ StartRow(diffSections, k, foldingEnabled) < currentLine
              /\ currentLine < StartRow(diffSections, k + 1, foldingEnabled) )
            => n.currentLine = StartRow(diffSections, k, foldingEnabled)
  ELSE n = State

\* C13: the previous-changed-section command moves the cursor to the
\* fold-aware start row of the last section with changes that starts strictly
\* above the cursor, which is the start of the cursor's own section when that
\* section has changes and the cursor is not on its first row; without such a
\* section the state stays as it is.
C13_PrevChangedSection ==
  /\ [](mainInput => PrevSectionGoal(afterUpdate(jumpToPrevSection(State))))
  /\ [][PrevSection => PrevSectionGoal(State')]_vars

\* the command goes back over an unchanged section to an earlier changed one
C13_Witness ==
  /\ Len(diffSections) >= 3
  /\ currentLine = StartRow(diffSections, Len(diffSections), foldingEnabled)
  /\ Unchanged(diffSections[Len(diffSections) - 1])
  /\ ENABLED (PrevSection /\ currentLine' < currentLine - 2 * contextLines)

\* C14: a next- or previous-changed-section command that moves the cursor
\* puts it on the first display row of a section with changes, never on a
\* row of an Equal-only section, with folding on or off.
C14_LandsOnChangedSection ==
  [][((NextSection \/ PrevSection) /\ currentLine' /= currentLine) =>
       \E k \in 1 .. Len(diffSections') :
         /\ StartRow(diffSections', k, foldingEnabled') = currentLine'
         /\ ~Unchanged(diffSections'[k])
         /\ \E j \in 1 .. Len(diffSections'[k].leftLines) :
              \/ diffSections'[k].leftLines[j].type /= "equal"
              \/ diffSections'[k].rightLines[j].type /= "equal"]_vars

\* with folding off, the command passes a long unchanged section
C14_Witness ==
  /\ ~foldingEnabled
  /\ \E k \in 1 .. Len(diffSections) :
       /\ Unchanged(diffSections[k])
       /\ StartRow(diffSections, k, FALSE) > currentLine
       /\ ENABLED (NextSection
                     /\ currentLine' >= StartRow(diffSections, k + 1, FALSE))

\* the state n has the cursor on the row and the working document, the undo
\* stack and the fold flag of the current state
MovesTo(n, row) ==
  /\ n.currentLine = row
  /\ n.editedRightContent = editedRightContent
  /\ n.undoStack = undoStack
  /\ n.foldingEnabled = foldingEnabled

\* the last display row
LastRow == TotalVisibleRows(diffSections, foldingEnabled) - 1

\* C15: with no modal shown, line up and line down set the cursor to
\* max(0, cursor - 1) and min(total rows - 1, cursor + 1), page up and page
\* down to max(0, cursor - height) and min(total rows - 1, cursor + height);
\* none of them changes the working document, the undo stack or the fold flag.
C15_LineAndPageMoves ==
  /\ [](mainInput =>
          /\ MovesTo(afterUpdate(lineUp(State)), Max(0, currentLine - 1))
          /\ MovesTo(afterUpdate(lineDown(State)),
                     Min(LastRow, currentLine + 1))
          /\ MovesTo(afterUpdate(pageUp(State, viewHeight)),
                     Max(0, currentLine - viewHeight))
          /\ MovesTo(afterUpdate(pageDown(State, viewHeight)),
                     Min(LastRow, currentLine + viewHeight)))
  /\ [][/\ LineUp => MovesTo(State', Max(0, currentLine - 1))
        /\ LineDown => MovesTo(State', Min(LastRow, currentLine + 1))
        /\ PageUp => MovesTo(State', Max(0, currentLine - viewHeight))
        /\ PageDown =>
             MovesTo(State', Min(LastRow, currentLine + viewHeight))]_vars

\* a page down cut short by the last row, from a state that was edited
C15_Witness ==
  /\ viewHeight > 1
  /\ undoStack /= <<>>
  /\ currentLine > 0
  /\ ENABLED (PageDown /\ currentLine' > currentLine
                       /\ currentLine' < currentLine + viewHeight)
  /\ ENABLED (PageUp /\ currentLine' = 0 /\ currentLine < viewHeight)

\* the section the cursor's row belongs to
CursorSection ==
  CHOOSE k \in 1 .. Len(diffSections) :
    /\ StartRow(diffSections, k, foldingEnabled) <= currentLine
    /\ currentLine < StartRow(diffSections, k + 1, foldingEnabled)

\* the state n has the working document, the undo stack, the sections and
\* the edited flag of the current state
NothingEdited(n) ==
  /\ n.editedRightContent = editedRightContent
  /\ n.undoStack = undoStack
  /\ n.diffSections = diffSections
  /\ (n.editedRightContent /= rightContent) = isEdited

\* C16: copyLeftToRight with the cursor in a section without changes is a
\* no-op: the working document, the undo stack, the sections and the edited
\* flag stay as they are.
C16_CopyUnchangedSection ==
  /\ [](( mainInput /\ Unchanged(diffSections[CursorSection]) ) =>
          NothingEdited(afterUpdate(copyLeftToRight(State))))
  /\ [][( CopyLeftToRight /\ Unchanged(diffSections[CursorSection]) ) =>
          NothingEdited(State')]_vars

\* the command is given on an unchanged section of an edited document
C16_Witness ==
  /\ mainInput
  /\ isEdited
  /\ undoStack /= <<>>
  /\ Unchanged(diffSections[CursorSection])
  /\ ENABLED (CopyLeftToRight /\ UNCHANGED vars)

\* the contents of the rows of the column that are not padding, in order
SourceLines(column) ==
  LET kept == SelectSeq(column, LAMBDA row : row.type /= "empty")
  IN  [j \in 1 .. Len(kept) |-> kept[j].content]

\* the line list the copy of section k has to produce from the line list old
CopiedLines(old, k) ==
  LET s == SourceLinesBefore(diffSections, k, "right")
      r == Len(SourceLines(diffSections[k].rightLines))
  IN  SubSeq(old, 1, s) \o SourceLines(diffSections[k].leftLines)
        \o SubSeq(old, s + r + 1, Len(old))

\* the state n holds the copy of the cursor's section and its sections
CopyDone(n) ==
  /\ split(n.editedRightContent)
       = CopiedLines(split(editedRightContent), CursorSection)
  /\ n.diffSections = computeDiffSections(leftContent, n.editedRightContent)

\* C17: copyLeftToRight on a changed section k replaces the lines [s, s + r)
\* of the working document by the section's non-Empty left contents in order,
\* s and r being the numbers of non-Empty right rows before and in section k;
\* every other line keeps its content and order, and the sections are
\* recomputed against the new working document.
C17_CopyReplacesSectionLines ==
  /\ [](( mainInput /\ ~Unchanged(diffSections[CursorSection]) ) =>
          CopyDone(afterUpdate(copyLeftToRight(State))))
  /\ [][( CopyLeftToRight /\ ~Unchanged(diffSections[CursorSection]) ) =>
          CopyDone(State')]_vars

\* a copy that deletes lines of the working document after a section that is
\* padded on the right, keeping lines on both sides of the section
C17_Witness ==
  /\ mainInput
  /\ ~Unchanged(diffSections[CursorSection])
  /\ SourceLinesBefore(diffSections, CursorSection, "right") > 0
  /\ \E j \in 1 .. CursorSection - 1 :
       \E i \in 1 .. Len(diffSections[j].rightLines) :
         diffSections[j].rightLines[i].type = "empty"
  /\ Len(undoStack) < MaxUndo
  /\ LET n == afterUpdate(copyLeftToRight(State))
     IN  /\ Len(split(n.editedRightContent)) < Len(split(editedRightContent))
         /\ Len(n.undoStack) = Len(undoStack) + 1

\* the state after copyLeftToRight and then undo, each with its effects
CopyThenUndo ==
  LET copied == afterUpdate(copyLeftToRight(State))
  IN  settle(copied, undoLastEdit(copied), FALSE, FALSE, leftContent,
             viewHeight)

\* the state n has the working document and the undo stack of the current
\* state
DocumentAndStackKept(n) ==
  /\ n.editedRightContent = editedRightContent
  /\ n.undoStack = undoStack

\* C18 as stated: from every reachable state, copyLeftToRight followed
\* immediately by undo leaves the working document and the undo stack as they
\* were before the copy.
C18_CopyUndoEveryState ==
  mainInput => DocumentAndStackKept(CopyThenUndo)

\* C18: from every reachable state in which the section under the cursor has
\* changes, copyLeftToRight followed immediately by undo leaves the working
\* document, character for character, and the undo stack as they were before
\* the copy.
C18_CopyUndoRoundTrip ==
  ( mainInput /\ ~Unchanged(diffSections[CursorSection]) ) =>
    DocumentAndStackKept(CopyThenUndo)

\* a copy that changes a working document ending in a newline, on top of an
\* earlier edit
C18_Witness ==
  /\ mainInput
  /\ ~Unchanged(diffSections[CursorSection])
  /\ undoStack /= <<>>
  /\ Len(undoStack) < MaxUndo
  /\ editedRightContent /= <<>>
  /\ editedRightContent[Len(editedRightContent)] = NL
  /\ afterUpdate(copyLeftToRight(State)).editedRightContent
       /= editedRightContent

\* C19: undo with an empty undo stack changes neither the working document
\* nor the stack and only sets the notice; nothing fails and the stack stays
\* empty.
C19_UndoEmptyStack ==
  /\ [](( mainInput /\ undoStack = <<>> ) =>
          afterUpdate(undoLastEdit(State))
            = [State EXCEPT !.saveMessage = "nothing"])
  /\ [][( Undo /\ undoStack = <<>> ) =>
          /\ UNCHANGED <<editedRightContent, undoStack, diffSections>>
          /\ saveMessage' = "nothing"]_vars

\* the notice of an undo that found the stack empty
C19_Witness ==
  /\ mainInput
  /\ undoStack = <<>>
  /\ saveMessage = "nothing"
  /\ editedRightContent /= <<>>

\* an edit: the text before it goes on top of the stack
StackPush ==
  /\ undoStack' = Append(undoStack, editedRightContent)
  /\ editedRightContent' /= editedRightContent

\* an undo: the top entry becomes the working document and leaves the stack
StackPop ==
  /\ undoStack /= <<>>
  /\ undoStack' = SubSeq(undoStack, 1, Len(undoStack) - 1)
  /\ editedRightContent' = undoStack[Len(undoStack)]

\* C20: the undo stack is last-in-first-out with no redo. It holds, oldest
\* first, the texts that preceded the edits not yet undone (the oldest being
\* the original text, and the working document being the original text when
\* the stack is empty); undo with a non-empty stack makes the top entry the
\* working document and removes exactly that entry; the stack and the working
\* document change in no other way, so that k edits followed by k undos
\* restore both.
C20_UndoStackLifo ==
  /\ [](( mainInput /\ undoStack /= <<>> ) =>
          LET u == afterUpdate(undoLastEdit(State))
          IN  /\ u.editedRightContent = undoStack[Len(undoStack)]
              /\ u.undoStack = SubSeq(undoStack, 1, Len(undoStack) - 1))
  /\ [](IF undoStack = <<>> THEN editedRightContent = rightContent
        ELSE undoStack[1] = rightContent)
  /\ [][\/ UNCHANGED <<undoStack, editedRightContent>>
        \/ StackPush
        \/ StackPop]_vars

\* two edits of which the second has been undone
C20_Witness ==
  /\ phase = "running"
  /\ saveMessage = "undone"
  /\ Len(undoStack) = MaxUndo - 1
  /\ Len(undoStack) >= 1
  /\ editedRightContent /= rightContent
  /\ editedRightContent /= undoStack[Len(undoStack)]

\* what a successful save leaves as the last write
Written ==
  [to |-> IF onSave THEN "sink" ELSE "file", text |-> editedRightContent]

\* C21: save hands the working document's current text to the injected sink
\* if there is one and to the right-hand file otherwise, and leaves the
\* working document, the undo stack and the edited flag as they are: an edited
\* document is still edited after it was saved.
C21_SaveWritesCurrentText ==
  /\ [](saveMessage = "saved" => lastWrite = Written)
  /\ [][Save =>
          /\ saveMessage' = "saved" => lastWrite' = Written
          /\ UNCHANGED <<editedRightContent, undoStack>>
          /\ isEdited' = isEdited]_vars

\* an edited document saved after two edits, one of them undone
C21_Witness ==
  /\ phase = "running"
  /\ saveMessage = "saved"
  /\ isEdited
  /\ undoStack /= <<>>
  /\ lastWrite.text = editedRightContent
  /\ lastWrite.text /= undoStack[Len(undoStack)]

UnderOverlay ==
  <<currentLine, scrollOffset, currentSection, foldingEnabled,
    horizontalOffset, editedRightContent, undoStack>>

\* C23: a quit request with an edited document opens the confirmation modal
\* and does not exit; with an unedited document it exits at once; cancel
\* closes the modal, and from the request to the cancel the cursor, the
\* scroll offset, the fold flag, the working document and the undo stack stay
\* as they were.
C23_QuitConfirmation ==
  /\ [][Quit =>
          IF editedRightContent /= rightContent
          THEN showQuitConfirm' /\ phase' = "running"
               /\ UNCHANGED UnderOverlay
          ELSE phase' = "exited" /\ ~showQuitConfirm']_vars
  /\ [][showQuitConfirm /\ phase' = "running" => UNCHANGED UnderOverlay]_vars
  /\ [][QuitConfirmCancel =>
          ~showQuitConfirm' /\ mainInput' /\ UNCHANGED UnderOverlay]_vars

\* the modal open over a moved cursor, a scrolled view, unfolded sections and
\* an edited document
C23_Witness ==
  /\ phase = "running"
  /\ showQuitConfirm
  /\ currentLine > 0
  /\ scrollOffset > 0
  /\ ~foldingEnabled
  /\ undoStack /= <<>>

\* C24: while the help overlay or the quit modal is shown no key changes the
\* cursor, the scroll offset, the current section, the fold flag, the
\* horizontal offset, the working document or the undo stack, and nothing is
\* saved except by the modal's save-and-exit; opening and closing an overlay
\* leave these components alone too, so they are after it what they were
\* before it.
C24_OverlaysIntercept ==
  /\ [][showHelp \/ showQuitConfirm =>
          /\ UNCHANGED UnderOverlay
          /\ lastWrite' /= lastWrite \/ saveMessage' /= saveMessage =>
               showQuitConfirm /\ phase' = "exited"]_vars
  /\ [][showHelp' /= showHelp \/ showQuitConfirm' /= showQuitConfirm =>
          UNCHANGED UnderOverlay]_vars

\* the help overlay open over a moved cursor, a scrolled view, a sideways
\* scroll and an edited document
C24_Witness ==
  /\ phase = "running"
  /\ showHelp
  /\ currentLine > 0
  /\ scrollOffset > 0
  /\ horizontalOffset > 0
  /\ undoStack /= <<>>

\* C25: the edited flag is true exactly while the working text differs from
\* the original right text; the modal is shown only while it is true; and a
\* quit request made after undo has brought the text back exits without the
\* modal.
C25_EditedFlag ==
  /\ [](isEdited <=> editedRightContent /= rightContent)
  /\ [](showQuitConfirm => editedRightContent /= rightContent)
  /\ [][Undo /\ editedRightContent' = rightContent => ~isEdited']_vars
  /\ [][Quit /\ editedRightContent = rightContent =>
          phase' = "exited" /\ ~showQuitConfirm']_vars

\* the session left by a quit request after an edit was undone
C25_Witness ==
  /\ phase = "exited"
  /\ ~showQuitConfirm
  /\ saveMessage = "undone"
  /\ editedRightContent = rightContent
  /\ lastWrite = NoWrite

\* neither the undo stack nor the working document differs between the state
\* and n
EditStateKept(n) ==
  /\ n.undoStack = undoStack
  /\ n.editedRightContent = editedRightContent

\* C27: the undo stack and the working document are unchanged by every event
\* that is not an edit: line, page and section moves, the fold toggle,
\* horizontal scroll, the help toggle, save, the quit request and the modal's
\* cancel.
C27_NonEditEvents ==
  /\ [](mainInput =>
          \A n \in {lineUp(State), lineDown(State),
                    pageUp(State, viewHeight), pageDown(State, viewHeight),
                    jumpToNextSection(State), jumpToPrevSection(State),
                    toggleFolding(State),
                    [State EXCEPT !.horizontalOffset = Max(0, @ - 5)],
                    [State EXCEPT !.horizontalOffset = @ + 5]} :
            EditStateKept(afterUpdate(n)))
  /\ [][LineDown \/ ToggleFolding \/ ScrollRight \/ ToggleHelp \/ HelpEscape
          \/ Save \/ Quit \/ QuitConfirmCancel \/ IgnoredKey =>
          UNCHANGED <<undoStack, editedRightContent>>]_vars

\* an edited document with one snapshot, saved, under the help overlay, with
\* the cursor moved and the view scrolled sideways
C27_Witness ==
  /\ showHelp
  /\ saveMessage = "saved"
  /\ Len(undoStack) = 1
  /\ isEdited
  /\ currentLine > 0
  /\ horizontalOffset > 0

\* n is the state with the splice applied and one snapshot of the text
\* pushed, or the state with text and stack as they are
AtomicEdit(n) ==
  \/ /\ n.undoStack = Append(undoStack, editedRightContent)
     /\ n.editedRightContent /= editedRightContent
  \/ /\ n.undoStack = undoStack
     /\ n.editedRightContent = editedRightContent

OriginalSections == computeDiffSections(leftContent, rightContent)

\* the line list the restore of section k has to produce from the line list
\* old
RestoredLines(old, k) ==
  LET s == SourceLinesBefore(diffSections, k, "right")
      r == Len(SourceLines(diffSections[k].rightLines))
  IN  SubSeq(old, 1, s) \o SourceLines(OriginalSections[k].rightLines)
        \o SubSeq(old, s + r + 1, Len(old))

\* the state n holds the snapshot pushed and, as its text, the lines of the
\* restore of the cursor's section joined by newlines
RestoreDone(n) ==
  /\ n.undoStack = Append(undoStack, editedRightContent)
  /\ n.editedRightContent
       = join(RestoredLines(split(editedRightContent), CursorSection))

\* C28: restoreOriginal on the cursor's section k pushes the current working
\* text and replaces the working lines under the non-Empty right rows of the
\* current section k by the non-Empty right lines of section k of the
\* alignment of the left with the original right document; the other lines
\* keep content and order.
C28_RestoreOriginalSection ==
  /\ [](( mainInput /\ CursorSection <= Len(OriginalSections) ) =>
          RestoreDone(afterUpdate(
            copyRightToLeft(State, leftContent, rightContent))))
  /\ [][( /\ saveMessage' = "restored"
           /\ CopyRightToLeft
           /\ CursorSection <= Len(OriginalSections) ) =>
          RestoreDone(State')]_vars

\* a restore in an edited document that changes lines of a section after the
\* first, the working document having another number of lines before the
\* section than the original
C28_Witness ==
  /\ mainInput
  /\ Len(undoStack) < MaxUndo
  /\ isEdited
  /\ CursorSection > 1
  /\ CursorSection <= Len(OriginalSections)
  /\ SourceLinesBefore(diffSections, CursorSection, "right")
       /= SourceLinesBefore(OriginalSections, CursorSection, "right")
  /\ afterUpdate(copyRightToLeft(State, leftContent, rightContent))
       .editedRightContent /= editedRightContent

\* what the renderer shows in the current state
Rendered == renderLines(State, viewHeight, terminalWidth)

\* what the dump prints after its header for the current documents, fold
\* flag, scroll offset and viewport height
Dumped ==
  LET printed ==
        dumpDiff(leftContent, editedRightContent, "left", "right",
                 [width |-> terminalWidth, foldingEnabled |-> foldingEnabled,
                  showDebug |-> FALSE, scrollOffset |-> scrollOffset,
                  viewHeight |-> viewHeight])
  IN  SubSeq(printed, 4, Len(printed))

\* C29: for the documents, fold flag, scroll offset and viewport height of
\* every state, the rows the dump prints are the rows the renderer shows, in
\* the same order and with the same numbers, prefixes and text, a fold
\* placeholder outside the viewport included or left out by both (the view
\* not being scrolled sideways, which the dump cannot be).
C29_DumpEqualsRenderer ==
  ( phase = "running" /\ horizontalOffset = 0 ) =>
    /\ Len(Dumped) = Len(Rendered)
    /\ \A j \in 1 .. Len(Rendered) : Dumped[j] = elementText(Rendered[j])

\* the section display row g belongs to
DisplayedSection(g) ==
  CHOOSE k \in 1 .. Len(diffSections) :
    /\ StartRow(diffSections, k, foldingEnabled) <= g
    /\ g < StartRow(diffSections, k + 1, foldingEnabled)

\* is section k shown folded
Folded(k) ==
  FoldedCount(diffSections[k], foldingEnabled) < Len(diffSections[k].leftLines)

\* the row of its section that display row g shows, counted from 1; the
\* placeholder of a folded section shows none
RawRowAt(g) ==
  LET k == DisplayedSection(g)
      j == g - StartRow(diffSections, k, foldingEnabled)
  IN  [section |-> k,
       placeholder |-> Folded(k) /\ j = contextLines,
       row |-> IF Folded(k) /\ j > contextLines
               THEN j + Len(diffSections[k].leftLines) - 2 * contextLines
               ELSE j + 1]

\* the 1-based index in its document of the line in the given row of the
\* column of section k
SourceIndex(side, k, row) ==
  LET column == IF side = "left" THEN diffSections[k].leftLines
                ELSE diffSections[k].rightLines
  IN  SourceLinesBefore(diffSections, k, side)
        + Len(SourceLines(SubSeq(column, 1, row - 1))) + 1

\* the number a cell's text starts with, 0 when the four columns are blank
RECURSIVE NumberIn(_)
NumberIn(chars) ==
  IF chars = <<>> \/ chars[Len(chars)] = " " THEN 0
  ELSE 10 * NumberIn(SubSeq(chars, 1, Len(chars) - 1))
         + (CHOOSE d \in 0 .. 9 : digitChar(d) = chars[Len(chars)])

ShownNumber(text) == NumberIn(SubSeq(text, 1, 4))

\* the cell text shows the index of the row's line in the document, or no
\* number for a padding row
NumberedAsSource(text, side, document, k, row) ==
  LET column == IF side = "left" THEN diffSections[k].leftLines
                ELSE diffSections[k].rightLines
  IN  IF column[row].type = "empty" THEN ShownNumber(text) = 0
      ELSE /\ ShownNumber(text) = SourceIndex(side, k, row)
           /\ split(document)[ShownNumber(text)] = column[row].content

\* C30: under every fold flag and scroll offset each rendered cell that is
\* not padding shows the 1-based index of its line in the left or right
\* document, and a padding cell shows no number: padding never advances the
\* counter, rows above the viewport advance it once per source line, and a
\* fold placeholder advances both counters by the rows it hides.
C30_LineNumbers ==
  phase = "running" =>
    \A j \in 1 .. Len(Rendered) :
      LET at == RawRowAt(Rendered[j].key)
      IN  /\ Rendered[j].fold = at.placeholder
          /\ ~Rendered[j].fold =>
               /\ NumberedAsSource(Rendered[j].left, "left", leftContent,
                                   at.section, at.row)
               /\ NumberedAsSource(Rendered[j].right, "right",
                                   editedRightContent, at.section, at.row)

\* a row rendered below the placeholder of a folded section, the placeholder
\* above the viewport, with different numbers on its two sides
C30_Witness ==
  /\ phase = "running"
  /\ \E j \in 1 .. Len(Rendered) :
       LET at == RawRowAt(Rendered[j].key)
           start == StartRow(diffSections, at.section, foldingEnabled)
       IN  /\ Folded(at.section)
           /\ Rendered[j].key > start + contextLines
           /\ scrollOffset > start + contextLines
           /\ ShownNumber(Rendered[j].left) > 0
           /\ ShownNumber(Rendered[j].right) > 0
           /\ ShownNumber(Rendered[j].left) /= ShownNumber(Rendered[j].right)

\* C31: whenever a key can be handled, currentSection is the index, counted
\* from 0, of the one section whose rows under the fold flag, from its start
\* row on, include the cursor's row; it lies in 0 .. number of sections - 1,
\* also after edits and undos that change the number of sections and after
\* fold toggles.
C31_CurrentSectionIndex ==
  mainInput =>
    /\ 0 <= currentSection /\ currentSection < Len(diffSections)
    /\ \A k \in 1 .. Len(diffSections) :
         ( /\ StartRow(diffSections, k, foldingEnabled) <= currentLine
           /\ currentLine < StartRow(diffSections, k, foldingEnabled)
                              + FoldedCount(diffSections[k], foldingEnabled) )
         <=> k = currentSection + 1

\* the cursor below a folded section in an edited document whose number of
\* sections is no longer that of the original alignment
C31_Witness ==
  /\ mainInput
  /\ undoStack /= <<>>
  /\ Len(diffSections) /= Len(computeDiffSections(leftContent, rightContent))
  /\ currentSection >= 1
  /\ \E k \in 1 .. currentSection : Folded(k)

\* the sum of the display row counts the fold rule gives the sections
RowsUnderFold(sections, folding) ==
  LET RECURSIVE sum(_)
      sum(k) == IF k = 0 THEN 0
                ELSE sum(k - 1) + FoldedCount(sections[k], folding)
  IN  sum(Len(sections))

\* C32: whenever a key is handled, the section list is the alignment of the
\* left document with the current working document and the stored total is
\* the sum of the sections' display row counts under the current fold flag:
\* no handler sees sections or a total from before the latest edit, undo or
\* fold toggle.
C32_SectionsNeverStale ==
  mainInput =>
    /\ diffSections = computeDiffSections(leftContent, editedRightContent)
    /\ totalLines = RowsUnderFold(diffSections, foldingEnabled)

\* keys are taken after an undo and a fold toggle, the sections being those
\* of neither the edited nor the folded state
C32_Witness ==
  /\ mainInput
  /\ saveMessage = "undone"
  /\ undoStack /= <<>>
  /\ ~foldingEnabled
  /\ totalLines /= RowsUnderFold(diffSections, TRUE)
  /\ diffSections /= computeDiffSections(leftContent, rightContent)

\* the sections are at least one, each of at least one row, and their rows
\* are at least one with folding on and with folding off
SomeRows(sections) ==
  /\ Len(sections) >= 1
  /\ \A k \in 1 .. Len(sections) :
       Len(sections[k].leftLines) >= 1 /\ Len(sections[k].rightLines) >= 1
  /\ RowsUnderFold(sections, TRUE) >= 1
  /\ RowsUnderFold(sections, FALSE) >= 1

\* C33: for every pair of documents the aligner returns at least one section
\* and every section has at least one row, so that the total row count is at
\* least 1 with folding on and off; two empty documents give one section of
\* one Equal row of empty content; and this stays so after a copy, a restore
\* and the undo of either.
C33_AtLeastOneRow ==
  phase = "running" =>
    /\ SomeRows(diffSections)
    /\ totalLines >= 1
    /\ ( leftContent = <<>> /\ rightContent = <<>> ) =>
         diffSections = << [leftStart |-> 0, rightStart |-> 0,
                            leftLines |-> <<Row(<<>>, "equal")>>,
                            rightLines |-> <<Row(<<>>, "equal")>>] >>
    /\ \A n \in {afterUpdate(copyLeftToRight(State)),
                 afterUpdate(copyRightToLeft(State, leftContent,
                                             rightContent))} :
         /\ SomeRows(n.diffSections) /\ n.totalLines >= 1
         /\ LET m == settle(n, undoLastEdit(n), FALSE, FALSE, leftContent,
                            viewHeight)
            IN  SomeRows(m.diffSections) /\ m.totalLines >= 1

\* the alignment of two empty documents
C33_Witness ==
  /\ phase = "running"
  /\ leftContent = <<>>
  /\ rightContent = <<>>
  /\ Len(diffSections) = 1
  /\ totalLines = 1

\* C34: the contents of the non-Empty left rows of all sections, in order,
\* are the left document's lines, and those of the non-Empty right rows the
\* working document's lines; hence the number of non-Empty right rows before
\* section k is where the lines of section k start in the working document.
C34_RowsPartitionDocuments ==
  phase = "running" =>
    /\ SourceLines(AllRows(diffSections, "left")) = split(leftContent)
    /\ SourceLines(AllRows(diffSections, "right")) = split(editedRightContent)
    /\ \A k \in 1 .. Len(diffSections) :
         LET own == SourceLines(diffSections[k].rightLines)
             s == SourceLinesBefore(diffSections, k, "right")
         IN  \A j \in 1 .. Len(own) : split(editedRightContent)[s + j] = own[j]

\* an edited document with a section whose lines start, in the working
\* document, before the row the section starts on, right padding preceding it
C34_Witness ==
  /\ phase = "running"
  /\ undoStack /= <<>>
  /\ \E k \in 2 .. Len(diffSections) :
       /\ SourceLines(diffSections[k].rightLines) /= <<>>
       /\ SourceLinesBefore(diffSections, k, "right")
            < Len(AllRows(SubSeq(diffSections, 1, k - 1), "right"))
       /\ SourceLinesBefore(diffSections, k, "right") > 0

\* the rows of the column of the given type
RowsOfType(column, type) == {j \in 1 .. Len(column) : column[j].type = type}

\* the padding rows of the column are its last rows
PaddingIsSuffix(column) ==
  \A j \in RowsOfType(column, "empty") :
    \A i \in j .. Len(column) : column[i].type = "empty"

\* C35: in every section left cells are Equal, Removed or Empty and right
\* cells Equal, Added or Empty; an Equal cell faces an Equal cell of the same
\* content; no row is Empty on both sides; in a section merged from a removed
\* and an added run the Empty cells are the last rows of at most one column.
\* Hence a section has a cell that is not Equal exactly when it has a Removed
\* or an Added cell.
C35_CellTypes ==
  phase = "running" =>
    \A k \in 1 .. Len(diffSections) :
      LET l == diffSections[k].leftLines
          r == diffSections[k].rightLines
      IN  /\ \A j \in 1 .. Len(l) :
                /\ l[j].type \in {"equal", "remove", "empty"}
                /\ r[j].type \in {"equal", "add", "empty"}
                /\ (l[j].type = "equal" \/ r[j].type = "equal") => l[j] = r[j]
                /\ ~(l[j].type = "empty" /\ r[j].type = "empty")
          /\ ( RowsOfType(l, "remove") /= {} /\ RowsOfType(r, "add") /= {} ) =>
                /\ RowsOfType(l, "empty") = {} \/ RowsOfType(r, "empty") = {}
                /\ PaddingIsSuffix(l) /\ PaddingIsSuffix(r)
          /\ hasChanges(diffSections[k])
               <=> ( RowsOfType(l, "remove") /= {} \/ RowsOfType(r, "add") /= {} )

\* sections of all kinds side by side: one merged from runs of different
\* lengths, padded at its end, and one of Equal rows
C35_Witness ==
  /\ phase = "running"
  /\ \E k \in 1 .. Len(diffSections) :
       /\ RowsOfType(diffSections[k].leftLines, "remove") /= {}
       /\ RowsOfType(diffSections[k].rightLines, "add") /= {}
       /\ RowsOfType(diffSections[k].leftLines, "empty")
            \cup RowsOfType(diffSections[k].rightLines, "empty") /= {}
  /\ \E k \in 1 .. Len(diffSections) : ~hasChanges(diffSections[k])

\* the line-level difference the sections show: the lines to remove from the
\* left document and to add to it to obtain the working document
Difference(sections) ==
  Cardinality(RowsOfType(AllRows(sections, "left"), "remove"))
    + Cardinality(RowsOfType(AllRows(sections, "right"), "add"))

\* the state n is nearer to the left document than the current state
Nearer(n) == Difference(n.diffSections) < Difference(diffSections)

\* C36: copyLeftToRight on a changed section makes the line-level difference
\* between the left and the working document strictly smaller, so copying
\* changed sections one after the other ends, after at most as many copies as
\* the difference counts, in a state without changed section; there, and only
\* there, the working text is the left text.
C36_CopyReducesDifference ==
  /\ [](( mainInput /\ ~Unchanged(diffSections[CursorSection]) ) =>
          Nearer(afterUpdate(copyLeftToRight(State))))
  /\ [][( /\ saveMessage' = "copied"
           /\ CopyLeftToRight
           /\ ~Unchanged(diffSections[CursorSection]) ) =>
          Nearer(State')]_vars
  /\ [](phase = "running" =>
          /\ ( Difference(diffSections) = 0
               <=> \A k \in 1 .. Len(diffSections) : Unchanged(diffSections[k]) )
          /\ ( Difference(diffSections) = 0
               <=> editedRightContent = leftContent ))

\* two copies have taken a document that differed from the left document to
\* the left document's text
C36_Witness ==
  /\ mainInput
  /\ saveMessage = "copied"
  /\ Len(undoStack) = 2
  /\ undoStack[1] = rightContent
  /\ Difference(computeDiffSections(leftContent, undoStack[2]))
       < Difference(computeDiffSections(leftContent, undoStack[1]))
  /\ editedRightContent = leftContent
  /\ Difference(diffSections) = 0

\* C37: in every state an empty undo stack goes with a working text equal to
\* the original right text, the edited flag being false, and the oldest
\* entry of a stack that is not empty is the original right text.
C37_StackBottomIsOriginal ==
  /\ undoStack = <<>> => ( editedRightContent = rightContent /\ ~isEdited )
  /\ undoStack /= <<>> => undoStack[1] = rightContent

\* the second of two edits has been undone: one entry is left under an
\* edited document
C37_Witness ==
  /\ phase = "running"
  /\ saveMessage = "undone"
  /\ Len(undoStack) = 1
  /\ undoStack[1] = rightContent
  /\ editedRightContent /= rightContent

\* C38: in every state the help overlay and the quit modal are not both
\* shown, and the quit modal is shown only over a working document that
\* differs from the original right text.
C38_OverlaysExclusive ==
  /\ ~(showHelp /\ showQuitConfirm)
  /\ showQuitConfirm => editedRightContent /= rightContent

\* the quit modal shown over a document edited twice and saved, the help
\* overlay closed
C38_Witness ==
  /\ phase = "running"
  /\ showQuitConfirm
  /\ ~showHelp
  /\ Len(undoStack) = 2
  /\ lastWrite /= NoWrite
  /\ editedRightContent /= rightContent

\* the text that was last written successfully; before any write, the right
\* document as it was read
Persisted == IF lastWrite = NoWrite THEN rightContent ELSE lastWrite.text

\* C39: the session ends with a working document that differs from what was
\* last written successfully only by discard-and-exit: save-and-exit ends the
\* session only when its write succeeded, and after a failed write the
\* session goes on with the edits kept.
C39_SaveAndExitNeedsWrite ==
  /\ [][( /\ phase = "running" /\ phase' = "exited"
           /\ editedRightContent' /= Persisted' ) =>
          QuitConfirmDiscard]_vars
  /\ [][( QuitConfirmSave /\ saveMessage' = "error" ) =>
          /\ phase' = "running"
          /\ UNCHANGED <<editedRightContent, undoStack>>]_vars

\* the global indices of the rows the renderer emits, in order
RenderedKeys == [j \in 1 .. Len(Rendered) |-> Rendered[j].key]

\* the rows of the viewport: from the scroll offset on, as many as the
\* viewport is high or as there are
Window ==
  LET last == Min(scrollOffset + viewHeight,
                  RowsUnderFold(diffSections, foldingEnabled))
  IN  [j \in 1 .. Max(0, last - scrollOffset) |-> scrollOffset + j - 1]

\* C40: once the effects have run, the renderer emits exactly the display
\* rows scrollOffset .. min(scrollOffset + viewHeight, totalRows) - 1, and
\* exactly one of them is marked as the cursor's row, the one whose global
\* index is the cursor, also when the cursor is on a fold placeholder.
C40_WindowAndCursorRow ==
  phase = "running" =>
    /\ RenderedKeys = Window
    /\ \E j \in 1 .. Len(Rendered) :
         /\ Rendered[j].key = currentLine
         /\ \A i \in 1 .. Len(Rendered) : Rendered[i].isCurrentLine <=> i = j

====
